---- MODULE Spec2Model ----
(***************************************************************************)
(* Wagered game sessions (game.service.ts), the pending-transfer           *)
(* confirmation registry of the bot's callback handler (index.ts) and the  *)
(* token ledger they drive (transfer.service.ts).                          *)
(*                                                                         *)
(* Every exported service function is an async function: the code between  *)
(* two awaits that touch the session document or the ledger runs as one    *)
(* step, and steps of different handler invocations interleave.  An        *)
(* invocation in flight is a record in the bag `calls`; its fields are the *)
(* locals the function keeps across its awaits.                            *)
(***************************************************************************)
EXTENDS Integers, Sequences, FiniteSets, Bags, TLC

\* ---------------------------------------------------------------- bounds
\* handler invocations in flight at the same time
MaxCalls == 2

\* ---------------------------------------------------------------- inputs
\* telegram ids of the accounts that may have a wallet (a User document)
Users == {"u1", "u2", "u3", "u4"}
\* OWNER_SAFE_ADDRESS, the account that holds the stakes
OWNER_SAFE_ADDRESS == "escrow"
\* ADMIN_TELEGRAM_ID
Admin == "admin"
\* the account that opens the session followed by the model
Creators == {"u1"}
\* game ids offered to createGameSession ("chess" is not in the catalog)
GameTypeInputs == {"blackjack", "beer_pong", "chess"}
\* player counts offered to createGameSession
SlotInputs == {2, 3, 4}
\* wagers offered to createGameSession, as decimal digit strings
WagerInputs == {<<1, 0>>}
\* chosenSide of joinGameSession; Null is `undefined`
Null == -1
SideInputs == {0, 1, Null}

\* ---------------------------------------------------------------- catalog
GAME_CONFIGS ==
  [ beer_pong |-> [teamBased |-> TRUE,  playerOptions |-> {2, 4, 6, 8}],
    blackjack |-> [teamBased |-> FALSE, playerOptions |-> {2, 3, 4, 5, 6, 7, 8}],
    connect_4 |-> [teamBased |-> FALSE, playerOptions |-> {2}],
    darts     |-> [teamBased |-> FALSE, playerOptions |-> {2, 3, 4}],
    flip_cup  |-> [teamBased |-> TRUE,  playerOptions |-> {4, 6, 8}] ]

\* getGameConfig: the catalog entry, or none for an unknown id
HasGameConfig(gameType) == gameType \in DOMAIN GAME_CONFIGS

getGameConfig(gameType) == GAME_CONFIGS[gameType]

\* ---------------------------------------------------------------- ledger
\* decimals of the token contract
getTokenDecimals == 2

RECURSIVE Pow10(_)
Pow10(d) == IF d = 0 THEN 1 ELSE 10 * Pow10(d - 1)

RECURSIVE DigitsValue(_)
DigitsValue(ds) ==
  IF ds = <<>> THEN 0
  ELSE 10 * DigitsValue(SubSeq(ds, 1, Len(ds) - 1)) + ds[Len(ds)]

\* viem parseUnits on a string of decimal digits
parseUnits(ds, decimals) == DigitsValue(ds) * Pow10(decimals)

\* ---------------------------------------------------------------- helpers
RECURSIVE SelectIds(_, _)
\* players.filter(p => p.side === side).map(p => p.telegramId)
SelectIds(players, side) ==
  IF players = <<>> THEN <<>>
  ELSE (IF Head(players).side = side THEN <<Head(players).telegramId>> ELSE <<>>)
       \o SelectIds(Tail(players), side)

Ids(seq) == {seq[i].telegramId : i \in 1..Len(seq)}

CountSide(players, side) == Cardinality({i \in 1..Len(players) : players[i].side = side})

CountId(seq, id) == Cardinality({i \in 1..Len(seq) : seq[i].telegramId = id})

\* votes.filter(v => v.approved).length and its complement
Approvals(votes) == Cardinality({i \in 1..Len(votes) : votes[i].approved})

Denials(votes) == Cardinality({i \in 1..Len(votes) : ~votes[i].approved})

\* half of the players, without the one more
HalfOfPlayers(totalPlayers) == totalPlayers \div 2

\* Math.floor(totalPlayers / 2) + 1
Majority(totalPlayers) == (totalPlayers \div 2) + 1

\* ---------------------------------------------------------------- state
VARIABLES
  users,            \* telegram ids that have a User document (a wallet)
  session,          \* the GameSession document followed by the model
  escrow,           \* tokens the escrow holds: its treasury plus the stakes (wei)
  calls,            \* bag of handler invocations in flight
  result,           \* what the service call that just finished returned
  pendingTransfers, \* the Map of transfers waiting for confirmation, by id
  now,              \* Date.now(), in ms
  issued,           \* transfer ids handed out so far
  ledgerCalls,      \* per transfer id, the sendTokens calls performTransfer made
  bounty            \* the Bounty document followed by the model

vars ==
  <<users, session, escrow, calls, result, pendingTransfers, now, issued, ledgerCalls, bounty>>

\* what the game engine never touches: the confirmation registry, the clock,
\* the ids handed out, the transfers submitted, and the bounty
transferVars == <<pendingTransfers, now, issued, ledgerCalls, bounty>>

\* User.find({telegramId: {$in: ids}}): one document per distinct account
RECURSIVE FindUsers(_)
FindUsers(ids) ==
  IF ids = <<>> THEN <<>>
  ELSE LET rest == FindUsers(SubSeq(ids, 1, Len(ids) - 1))
           last == ids[Len(ids)]
       IN IF last \in users /\ \A i \in 1..Len(rest) : rest[i] # last
          THEN rest \o <<last>> ELSE rest

\* no GameSession document yet (fields as the schema of game-session.model.ts)
NoSession ==
  [ exists |-> FALSE, gameType |-> "", creatorTelegramId |-> "",
    wagerPerPlayer |-> <<>>, totalSlots |-> 0, teamBased |-> FALSE,
    status |-> "waiting", players |-> <<>>, proposedWinnerSide |-> Null,
    proposedWinnerTelegramId |-> "", votes |-> <<>>, lobbyMessageId |-> Null ]

\* the locals of an invocation; an invocation overrides those it uses
NoCall ==
  [ op |-> "", pc |-> "", telegramId |-> "", gameType |-> "", totalSlots |-> 0,
    wagerPerPlayer |-> <<>>, side |-> Null, isFull |-> FALSE, approved |-> FALSE,
    winnerId |-> "", newVotes |-> <<>>, totalPlayers |-> 0, amount |-> 0,
    todo |-> <<>>, txHashes |-> <<>>, winnerIds |-> <<>>,
    transferId |-> "", senderTelegramId |-> "", recipientUsername |-> "",
    amountStr |-> <<>>, claimerTelegramId |-> "" ]

NoResult ==
  [ op |-> "", telegramId |-> "", success |-> FALSE, error |-> "",
    txHashes |-> <<>>, resolved |-> FALSE, approved |-> FALSE, isFull |-> FALSE,
    transferId |-> "" ]

Ok(op, who) == [NoResult EXCEPT !.op = op, !.telegramId = who, !.success = TRUE]

Err(op, who, error) == [NoResult EXCEPT !.op = op, !.telegramId = who, !.error = error]

\* an exception that escaped the service function (sendTokens threw)
Thrown == "exception"

InFlight == BagToSet(calls)

\* the bot takes up a callback
CanStart == result = NoResult /\ BagCardinality(calls) < MaxCalls

\* a new invocation suspends at its first await
Spawn(c) == calls' = calls (+) SetToBag({c})

\* an invocation resumes and suspends again
Advance(c, d) == calls' = (calls (-) SetToBag({c})) (+) SetToBag({d})

\* an invocation returns (or throws) to the bot
Finish(c, res) == calls' = calls (-) SetToBag({c}) /\ result' = res

\* what the escrow account holds before any stake: 20 tokens of treasury
Treasury == parseUnits(<<2, 0>>, getTokenDecimals)

\* what the accounts hold together before any stake: 40 tokens; the model
\* does not follow which account holds how much of it
UserFunds == parseUnits(<<4, 0>>, getTokenDecimals)

\* getTokenBalance of an account, at most: what is not in the escrow
getTokenBalance(u) == Treasury + UserFunds - escrow

\* the ERC-20 transfer submitted by sendTokens(from, to, amount) goes through
CanSend(from, amount) ==
  IF from = OWNER_SAFE_ADDRESS THEN escrow >= amount ELSE getTokenBalance(from) >= amount

\* the escrow's balance after sendTokens(from, to, amount) went through
Sent(from, to, amount) ==
  IF to = OWNER_SAFE_ADDRESS THEN escrow + amount
  ELSE IF from = OWNER_SAFE_ADDRESS THEN escrow - amount
  ELSE escrow

\* ids that crypto.randomBytes(8) hands out
TransferIds == {"t1", "t2"}

\* no Bounty document; claimerTelegramId "" is unset; sent counts the reward
\* transfers that went through
NoBounty ==
  [ exists |-> FALSE, creatorTelegramId |-> "", amount |-> <<>>, status |-> "open",
    claimerTelegramId |-> "", sent |-> 0 ]

\* const pendingTransfers = new Map(), nothing submitted yet, no bounty
NoTransfers ==
  /\ bounty = NoBounty
  /\ pendingTransfers = [id \in {} |-> 0]
  /\ now = 0
  /\ issued = {}
  /\ ledgerCalls = [id \in TransferIds |-> 0]

InitWith(accounts) ==
  /\ NoTransfers
  /\ users = accounts
  /\ session = NoSession
  /\ escrow = Treasury
  /\ calls = EmptyBag
  /\ result = NoResult

Init == InitWith({"u1", "u2", "u3"})

\* the bot shows the outcome to the caller; the model then forgets it
Reply ==
  /\ result # NoResult
  /\ result' = NoResult
  /\ UNCHANGED <<transferVars, users, session, escrow, calls>>

\* ---------------------------------------------------------------- createGameSession
\* createGameSession without the check of the player count
CreateStartAnyCount(gameType, creatorTelegramId, totalSlots, wagerPerPlayer) ==
  /\ CanStart
  /\ ~session.exists
  /\ \A c \in InFlight : c.op # "createGameSession"
  /\ UNCHANGED <<transferVars, users, session, escrow>>
  /\ LET fail(e) == result' = Err("createGameSession", creatorTelegramId, e) /\ UNCHANGED calls
     IN IF ~HasGameConfig(gameType) THEN fail("Unknown game type.")
        ELSE IF creatorTelegramId \notin users THEN fail("You don't have a wallet yet.")
        ELSE IF getTokenBalance(creatorTelegramId) < parseUnits(wagerPerPlayer, getTokenDecimals)
          THEN fail("Insufficient balance.")
        ELSE /\ Spawn([NoCall EXCEPT !.op = "createGameSession", !.pc = "collect",
                          !.telegramId = creatorTelegramId, !.gameType = gameType,
                          !.totalSlots = totalSlots, !.wagerPerPlayer = wagerPerPlayer,
                          !.amount = parseUnits(wagerPerPlayer, getTokenDecimals)])
             /\ UNCHANGED result

\* lines 205-222: the checks that precede the stake transfer
CreateStart(gameType, creatorTelegramId, totalSlots, wagerPerPlayer) ==
  /\ CanStart
  /\ ~session.exists
  /\ \A c \in InFlight : c.op # "createGameSession"
  /\ UNCHANGED <<transferVars, users, session, escrow>>
  /\ LET fail(e) == result' = Err("createGameSession", creatorTelegramId, e) /\ UNCHANGED calls
     IN IF ~HasGameConfig(gameType) THEN fail("Unknown game type.")
        ELSE IF totalSlots \notin getGameConfig(gameType).playerOptions
          THEN fail("Invalid player count for this game.")
        ELSE IF creatorTelegramId \notin users THEN fail("You don't have a wallet yet.")
        ELSE IF getTokenBalance(creatorTelegramId) < parseUnits(wagerPerPlayer, getTokenDecimals)
          THEN fail("Insufficient balance.")
        ELSE /\ Spawn([NoCall EXCEPT !.op = "createGameSession", !.pc = "collect",
                          !.telegramId = creatorTelegramId, !.gameType = gameType,
                          !.totalSlots = totalSlots, !.wagerPerPlayer = wagerPerPlayer,
                          !.amount = parseUnits(wagerPerPlayer, getTokenDecimals)])
             /\ UNCHANGED result

\* createGameSession going on to persist although sendTokens threw
CreateCollectUnchecked(c) ==
  /\ result = NoResult /\ c.op = "createGameSession" /\ c.pc = "collect"
  /\ UNCHANGED <<transferVars, users, session, result>>
  /\ \/ /\ CanSend(c.telegramId, c.amount)
        /\ escrow' = Sent(c.telegramId, OWNER_SAFE_ADDRESS, c.amount)
        /\ Advance(c, [c EXCEPT !.pc = "persist",
                                !.txHashes = <<[to |-> OWNER_SAFE_ADDRESS, amount |-> c.amount]>>])
     \/ /\ Advance(c, [c EXCEPT !.pc = "persist"])
        /\ UNCHANGED escrow

\* line 225: sendTokens(creator, escrow, wagerWei) returns or throws
CreateCollect(c) ==
  /\ result = NoResult /\ c.op = "createGameSession" /\ c.pc = "collect"
  /\ UNCHANGED <<transferVars, users, session>>
  /\ \/ /\ CanSend(c.telegramId, c.amount)
        /\ escrow' = Sent(c.telegramId, OWNER_SAFE_ADDRESS, c.amount)
        /\ Advance(c, [c EXCEPT !.pc = "persist",
                                !.txHashes = <<[to |-> OWNER_SAFE_ADDRESS, amount |-> c.amount]>>])
        /\ UNCHANGED result
     \/ /\ Finish(c, Err("createGameSession", c.telegramId, Thrown))
        /\ UNCHANGED escrow

\* lines 228-251: GameSession.create with the creator as player 0
CreatePersist(c) ==
  /\ result = NoResult /\ c.op = "createGameSession" /\ c.pc = "persist"
  /\ session' = [NoSession EXCEPT
       !.exists = TRUE, !.gameType = c.gameType,
       !.creatorTelegramId = c.telegramId, !.wagerPerPlayer = c.wagerPerPlayer,
       !.totalSlots = c.totalSlots, !.teamBased = getGameConfig(c.gameType).teamBased,
       !.players = <<[telegramId |-> c.telegramId, side |-> 0, paid |-> TRUE]>>]
  /\ Finish(c, [Ok("createGameSession", c.telegramId) EXCEPT !.txHashes = c.txHashes])
  /\ UNCHANGED <<transferVars, users, escrow>>

\* the side computation with a full chosen side handed to the smaller side
JoinSideAutoBalance(s, chosenSide) ==
  IF ~s.teamBased THEN 0
  ELSE IF chosenSide \in {0, 1} /\ CountSide(s.players, chosenSide) < s.totalSlots \div 2
    THEN chosenSide
  ELSE IF CountSide(s.players, 0) <= CountSide(s.players, 1) THEN 0 ELSE 1

\* ---------------------------------------------------------------- joinGameSession
\* lines 276-291: the side the joiner gets, or Null when the chosen side is full
JoinSide(s, chosenSide) ==
  IF ~s.teamBased THEN 0
  ELSE IF chosenSide \in {0, 1}
    THEN IF CountSide(s.players, chosenSide) >= s.totalSlots \div 2 THEN Null ELSE chosenSide
  ELSE IF CountSide(s.players, 0) <= CountSide(s.players, 1) THEN 0 ELSE 1

\* lines 264-304: read the session and check it against the joiner
JoinStart(telegramId, chosenSide) ==
  /\ CanStart
  /\ UNCHANGED <<transferVars, users, session, escrow>>
  /\ LET fail(e) == result' = Err("joinGameSession", telegramId, e) /\ UNCHANGED calls
         wagerWei == parseUnits(session.wagerPerPlayer, getTokenDecimals)
     IN IF ~session.exists THEN fail("Game not found.")
        ELSE IF session.status # "waiting" THEN fail("This game is no longer accepting players.")
        ELSE IF telegramId \in Ids(session.players) THEN fail("You already joined this game.")
        ELSE IF Len(session.players) >= session.totalSlots THEN fail("This game is full.")
        ELSE IF JoinSide(session, chosenSide) = Null THEN fail("Team is full.")
        ELSE IF telegramId \notin users THEN fail("You don't have a wallet yet.")
        ELSE IF getTokenBalance(telegramId) < wagerWei THEN fail("Insufficient balance.")
        ELSE /\ Spawn([NoCall EXCEPT !.op = "joinGameSession", !.pc = "collect",
                          !.telegramId = telegramId,
                          !.side = JoinSide(session, chosenSide),
                          !.isFull = (Len(session.players) + 1 >= session.totalSlots),
                          !.amount = wagerWei])
             /\ UNCHANGED result

\* joinGameSession going on to push the player although sendTokens threw
JoinCollectUnchecked(c) ==
  /\ result = NoResult /\ c.op = "joinGameSession" /\ c.pc = "collect"
  /\ UNCHANGED <<transferVars, users, session, result>>
  /\ \/ /\ CanSend(c.telegramId, c.amount)
        /\ escrow' = Sent(c.telegramId, OWNER_SAFE_ADDRESS, c.amount)
        /\ Advance(c, [c EXCEPT !.pc = "persist",
                                !.txHashes = <<[to |-> OWNER_SAFE_ADDRESS, amount |-> c.amount]>>])
     \/ /\ Advance(c, [c EXCEPT !.pc = "persist"])
        /\ UNCHANGED escrow

\* line 307: sendTokens(joiner, escrow, wagerWei) returns or throws
JoinCollect(c) ==
  /\ result = NoResult /\ c.op = "joinGameSession" /\ c.pc = "collect"
  /\ UNCHANGED <<transferVars, users, session>>
  /\ \/ /\ CanSend(c.telegramId, c.amount)
        /\ escrow' = Sent(c.telegramId, OWNER_SAFE_ADDRESS, c.amount)
        /\ Advance(c, [c EXCEPT !.pc = "persist",
                                !.txHashes = <<[to |-> OWNER_SAFE_ADDRESS, amount |-> c.amount]>>])
        /\ UNCHANGED result
     \/ /\ Finish(c, Err("joinGameSession", c.telegramId, Thrown))
        /\ UNCHANGED escrow

\* lines 310-323: one updateOne pushes the player and, if isFull, starts the game
JoinPersist(c) ==
  /\ result = NoResult /\ c.op = "joinGameSession" /\ c.pc = "persist"
  /\ session' = [session EXCEPT
       !.players = Append(@, [telegramId |-> c.telegramId, side |-> c.side, paid |-> TRUE]),
       !.status = IF c.isFull THEN "active" ELSE @]
  /\ Finish(c, [Ok("joinGameSession", c.telegramId) EXCEPT
                  !.txHashes = c.txHashes, !.isFull = c.isFull])
  /\ UNCHANGED <<transferVars, users, escrow>>

\* ---------------------------------------------------------------- proposeWinner
\* proposeWinner without the check of the caller
ProposeStartAnyCaller(telegramId, side, winnerId) ==
  /\ CanStart
  /\ UNCHANGED <<transferVars, users, session, escrow>>
  /\ LET fail(e) == result' = Err("proposeWinner", telegramId, e) /\ UNCHANGED calls
     IN IF ~session.exists THEN fail("Game not found.")
        ELSE IF session.status # "active" THEN fail("This game is not active.")
        ELSE /\ Spawn([NoCall EXCEPT !.op = "proposeWinner", !.pc = "update",
                          !.telegramId = telegramId, !.side = side, !.winnerId = winnerId])
             /\ UNCHANGED result

\* lines 339-346: only the creator, only while active
ProposeStart(telegramId, side, winnerId) ==
  /\ CanStart
  /\ UNCHANGED <<transferVars, users, session, escrow>>
  /\ LET fail(e) == result' = Err("proposeWinner", telegramId, e) /\ UNCHANGED calls
     IN IF ~session.exists THEN fail("Game not found.")
        ELSE IF session.creatorTelegramId # telegramId
          THEN fail("Only the game creator can end the game.")
        ELSE IF session.status # "active" THEN fail("This game is not active.")
        ELSE /\ Spawn([NoCall EXCEPT !.op = "proposeWinner", !.pc = "update",
                          !.telegramId = telegramId, !.side = side, !.winnerId = winnerId])
             /\ UNCHANGED result

\* proposeWinner recording a player without clearing the side
ProposeUpdateKeepingSide(c) ==
  /\ result = NoResult /\ c.op = "proposeWinner" /\ c.pc = "update"
  /\ session' = [session EXCEPT
       !.status = "voting", !.votes = <<>>,
       !.proposedWinnerSide = IF c.side # Null THEN c.side ELSE 0,
       !.proposedWinnerTelegramId = IF c.side # Null THEN "" ELSE c.winnerId]
  /\ Finish(c, Ok("proposeWinner", c.telegramId))
  /\ UNCHANGED <<transferVars, users, escrow>>

\* lines 348-359: status voting, votes emptied, one of the two winner fields set
ProposeUpdate(c) ==
  /\ result = NoResult /\ c.op = "proposeWinner" /\ c.pc = "update"
  /\ session' = [session EXCEPT
       !.status = "voting", !.votes = <<>>,
       !.proposedWinnerSide = c.side,
       !.proposedWinnerTelegramId = IF c.side # Null THEN "" ELSE c.winnerId]
  /\ Finish(c, Ok("proposeWinner", c.telegramId))
  /\ UNCHANGED <<transferVars, users, escrow>>

\* ---------------------------------------------------------------- castVote
\* castVote without the check that the voter is a player
VoteStartAnyVoter(telegramId, approved) ==
  /\ CanStart
  /\ UNCHANGED <<transferVars, users, session, escrow>>
  /\ LET fail(e) == result' = Err("castVote", telegramId, e) /\ UNCHANGED calls
     IN IF ~session.exists THEN fail("Game not found.")
        ELSE IF session.status # "voting" THEN fail("This game is not in voting.")
        ELSE IF telegramId \in Ids(session.votes) THEN fail("You already voted.")
        ELSE /\ Spawn([NoCall EXCEPT !.op = "castVote", !.pc = "push",
                          !.telegramId = telegramId, !.approved = approved,
                          !.totalPlayers = Len(session.players),
                          !.newVotes = Append(session.votes,
                               [telegramId |-> telegramId, approved |-> approved])])
             /\ UNCHANGED result

\* lines 377-387: only while voting, only players, one vote each
VoteStart(telegramId, approved) ==
  /\ CanStart
  /\ UNCHANGED <<transferVars, users, session, escrow>>
  /\ LET fail(e) == result' = Err("castVote", telegramId, e) /\ UNCHANGED calls
     IN IF ~session.exists THEN fail("Game not found.")
        ELSE IF session.status # "voting" THEN fail("This game is not in voting.")
        ELSE IF telegramId \notin Ids(session.players) THEN fail("Only players can vote.")
        ELSE IF telegramId \in Ids(session.votes) THEN fail("You already voted.")
        ELSE /\ Spawn([NoCall EXCEPT !.op = "castVote", !.pc = "push",
                          !.telegramId = telegramId, !.approved = approved,
                          !.totalPlayers = Len(session.players),
                          !.newVotes = Append(session.votes,
                               [telegramId |-> telegramId, approved |-> approved])])
             /\ UNCHANGED result

\* lines 400-402, on the votes the invocation read before it pushed its own
IsApproved(c) == Approvals(c.newVotes) >= Majority(c.totalPlayers)

IsDenied(c) == Denials(c.newVotes) >= Majority(c.totalPlayers)

VoteResult(c) ==
  [Ok("castVote", c.telegramId) EXCEPT
     !.resolved = IsApproved(c) \/ IsDenied(c), !.approved = IsApproved(c)]

\* lines 389-392, and the return of line 411 when the tally resolves nothing
VotePush(c) ==
  /\ result = NoResult /\ c.op = "castVote" /\ c.pc = "push"
  /\ session' = [session EXCEPT
       !.votes = Append(@, [telegramId |-> c.telegramId, approved |-> c.approved])]
  /\ IF IsApproved(c) \/ IsDenied(c)
       THEN Advance(c, [c EXCEPT !.pc = "resolve"]) /\ UNCHANGED result
       ELSE Finish(c, VoteResult(c))
  /\ UNCHANGED <<transferVars, users, escrow>>

\* lines 404-411; the game_vote handler (index.ts 2205-2214) then pays out an
\* approved round
VoteResolve(c) ==
  /\ result = NoResult /\ c.op = "castVote" /\ c.pc = "resolve"
  /\ session' = [session EXCEPT
       !.status = IF IsApproved(c) THEN "completed" ELSE "disputed"]
  /\ result' = VoteResult(c)
  /\ IF IsApproved(c)
       THEN Advance(c, [NoCall EXCEPT !.op = "payoutWinners", !.pc = "read",
                                      !.telegramId = c.telegramId])
       ELSE calls' = calls (-) SetToBag({c})
  /\ UNCHANGED <<transferVars, users, escrow>>

\* ---------------------------------------------------------------- payoutWinners
\* payoutWinners taking every player for a winner
WinnerIdsEveryPlayer(s) ==
  IF s.teamBased /\ s.proposedWinnerSide # Null
    THEN [i \in 1..Len(s.players) |-> s.players[i].telegramId]
  ELSE IF s.proposedWinnerTelegramId # "" THEN <<s.proposedWinnerTelegramId>>
  ELSE <<>>

\* lines 425-434: the winners named by the recorded proposal
WinnerIds(s) ==
  IF s.teamBased /\ s.proposedWinnerSide # Null
    THEN SelectIds(s.players, s.proposedWinnerSide)
  ELSE IF s.proposedWinnerTelegramId # "" THEN <<s.proposedWinnerTelegramId>>
  ELSE <<>>

\* payoutWinners dividing one stake, not the pot, among the winners
PerWinnerOfStake(s) ==
  parseUnits(s.wagerPerPlayer, getTokenDecimals) \div Len(WinnerIds(s))

\* lines 438-441: the whole pot divided by the number of winner ids
PerWinner(s) ==
  (parseUnits(s.wagerPerPlayer, getTokenDecimals) * Len(s.players)) \div Len(WinnerIds(s))

\* lines 419-444
PayoutRead(c) ==
  /\ result = NoResult /\ c.op = "payoutWinners" /\ c.pc = "read"
  /\ UNCHANGED <<transferVars, users, session, escrow>>
  /\ LET fail(e) == Finish(c, Err("payoutWinners", c.telegramId, e))
     IN IF ~session.exists THEN fail("Game not found.")
        ELSE IF session.status # "completed" THEN fail("Game is not completed.")
        ELSE IF ~(session.teamBased /\ session.proposedWinnerSide # Null)
                /\ session.proposedWinnerTelegramId = ""
          THEN fail("No winner specified.")
        ELSE IF WinnerIds(session) = <<>> THEN fail("No winners found.")
        ELSE IF FindUsers(WinnerIds(session)) = <<>> THEN fail("Winner accounts not found.")
        ELSE /\ Advance(c, [c EXCEPT !.pc = "pay",
                               !.winnerIds = WinnerIds(session),
                               !.amount = PerWinner(session),
                               !.todo = FindUsers(WinnerIds(session))])
             /\ UNCHANGED result

\* lines 446-454: one sendTokens per winner account; a throw leaves the loop
PayoutSend(c) ==
  /\ result = NoResult /\ c.op = "payoutWinners" /\ c.pc = "pay"
  /\ UNCHANGED <<transferVars, users, session>>
  /\ \/ /\ CanSend(OWNER_SAFE_ADDRESS, c.amount)
        /\ escrow' = Sent(OWNER_SAFE_ADDRESS, Head(c.todo), c.amount)
        /\ LET txs == Append(c.txHashes, [to |-> Head(c.todo), amount |-> c.amount])
           IN IF Tail(c.todo) = <<>>
                THEN Finish(c, [Ok("payoutWinners", c.telegramId) EXCEPT !.txHashes = txs])
                ELSE /\ Advance(c, [c EXCEPT !.todo = Tail(@), !.txHashes = txs])
                     /\ UNCHANGED result
     \/ /\ Finish(c, Err("payoutWinners", c.telegramId, Thrown))
        /\ UNCHANGED escrow

\* ---------------------------------------------------------------- refundGame
RECURSIVE PaidIds(_)
\* players.filter(p => p.paid).map(p => p.telegramId)
PaidIds(players) ==
  IF players = <<>> THEN <<>>
  ELSE (IF Head(players).paid THEN <<Head(players).telegramId>> ELSE <<>>)
       \o PaidIds(Tail(players))

\* refundGame handing each paid player a share of the full pot instead of the
\* wager
RefundReadPotShare(c) ==
  /\ result = NoResult /\ c.op = "refundGame" /\ c.pc = "read"
  /\ UNCHANGED <<transferVars, users, session, escrow>>
  /\ IF ~session.exists THEN Finish(c, Err("refundGame", c.telegramId, "Game not found."))
     ELSE IF PaidIds(session.players) = <<>> THEN Finish(c, Ok("refundGame", c.telegramId))
     ELSE /\ Advance(c, [c EXCEPT
               !.pc = IF FindUsers(PaidIds(session.players)) = <<>> THEN "cancel" ELSE "refund",
               !.amount = parseUnits(session.wagerPerPlayer, getTokenDecimals)
                            * session.totalSlots,
               !.todo = FindUsers(PaidIds(session.players))])
          /\ UNCHANGED result

\* lines 462-473: no check of the status
RefundRead(c) ==
  /\ result = NoResult /\ c.op = "refundGame" /\ c.pc = "read"
  /\ UNCHANGED <<transferVars, users, session, escrow>>
  /\ IF ~session.exists THEN Finish(c, Err("refundGame", c.telegramId, "Game not found."))
     ELSE IF PaidIds(session.players) = <<>> THEN Finish(c, Ok("refundGame", c.telegramId))
     ELSE /\ Advance(c, [c EXCEPT
               !.pc = IF FindUsers(PaidIds(session.players)) = <<>> THEN "cancel" ELSE "refund",
               !.amount = parseUnits(session.wagerPerPlayer, getTokenDecimals),
               !.todo = FindUsers(PaidIds(session.players))])
          /\ UNCHANGED result

\* lines 475-480: one sendTokens of the wager per paid account
RefundSend(c) ==
  /\ result = NoResult /\ c.op = "refundGame" /\ c.pc = "refund"
  /\ UNCHANGED <<transferVars, users, session>>
  /\ \/ /\ CanSend(OWNER_SAFE_ADDRESS, c.amount)
        /\ escrow' = Sent(OWNER_SAFE_ADDRESS, Head(c.todo), c.amount)
        /\ Advance(c, [c EXCEPT
             !.pc = IF Tail(c.todo) = <<>> THEN "cancel" ELSE "refund",
             !.todo = Tail(@),
             !.txHashes = Append(@, [to |-> Head(c.todo), amount |-> c.amount])])
        /\ UNCHANGED result
     \/ /\ Finish(c, Err("refundGame", c.telegramId, Thrown))
        /\ UNCHANGED escrow

\* lines 482-484
RefundCancel(c) ==
  /\ result = NoResult /\ c.op = "refundGame" /\ c.pc = "cancel"
  /\ session' = [session EXCEPT !.status = "cancelled"]
  /\ Finish(c, [Ok("refundGame", c.telegramId) EXCEPT !.txHashes = c.txHashes])
  /\ UNCHANGED <<transferVars, users, escrow>>

\* ---------------------------------------------------------------- cancelGame
\* cancelGame without the check of the status
CancelStartAnyStatus(telegramId) ==
  /\ CanStart
  /\ UNCHANGED <<transferVars, users, session, escrow>>
  /\ LET fail(e) == result' = Err("cancelGame", telegramId, e) /\ UNCHANGED calls
     IN IF ~session.exists THEN fail("Game not found.")
        ELSE IF session.creatorTelegramId # telegramId
          THEN fail("Only the game creator can cancel.")
        ELSE /\ Spawn([NoCall EXCEPT !.op = "refundGame", !.pc = "read",
                                     !.telegramId = telegramId])
             /\ UNCHANGED result

\* lines 491-500: the creator, while waiting; then refundGame reads again
CancelStart(telegramId) ==
  /\ CanStart
  /\ UNCHANGED <<transferVars, users, session, escrow>>
  /\ LET fail(e) == result' = Err("cancelGame", telegramId, e) /\ UNCHANGED calls
     IN IF ~session.exists THEN fail("Game not found.")
        ELSE IF session.creatorTelegramId # telegramId
          THEN fail("Only the game creator can cancel.")
        ELSE IF session.status # "waiting"
          THEN fail("Can only cancel games that haven't started.")
        ELSE /\ Spawn([NoCall EXCEPT !.op = "refundGame", !.pc = "read",
                                     !.telegramId = telegramId])
             /\ UNCHANGED result

\* ---------------------------------------------------------------- game_admin callbacks
\* index.ts 2289-2309: game_admin_<shortId>_refund, from the admin only
AdminRefundStart(telegramId) ==
  /\ CanStart
  /\ UNCHANGED <<transferVars, users, session, escrow>>
  /\ IF telegramId # Admin
       THEN /\ result' = Err("game_admin", telegramId, "Only the admin can resolve disputes.")
            /\ UNCHANGED calls
       ELSE /\ Spawn([NoCall EXCEPT !.op = "refundGame", !.pc = "read",
                                    !.telegramId = telegramId])
            /\ UNCHANGED result

\* parseInt(winnerIdentifier, 10) on the identifiers offered; Null is NaN
parseInt(str) == IF str = "0" THEN 0 ELSE IF str = "1" THEN 1 ELSE Null

\* adminResolveGame without the check of the status
AdminResolveStartAnyStatus(telegramId, winnerIdentifier) ==
  /\ CanStart
  /\ UNCHANGED <<transferVars, users, session, escrow>>
  /\ LET fail(e) == result' = Err("adminResolveGame", telegramId, e) /\ UNCHANGED calls
         side == parseInt(winnerIdentifier)
     IN IF telegramId # Admin
          THEN /\ result' = Err("game_admin", telegramId, "Only the admin can resolve disputes.")
               /\ UNCHANGED calls
        ELSE IF ~session.exists THEN fail("Game not found.")
        ELSE IF session.teamBased /\ side \notin {0, 1} THEN fail("Invalid side.")
        ELSE IF ~session.teamBased /\ winnerIdentifier \notin Ids(session.players)
          THEN fail("Winner is not a player in this game.")
        ELSE /\ Spawn([NoCall EXCEPT !.op = "adminResolveGame", !.pc = "update",
                          !.telegramId = telegramId,
                          !.side = IF session.teamBased THEN side ELSE Null,
                          !.winnerId = IF session.teamBased THEN "" ELSE winnerIdentifier])
             /\ UNCHANGED result

\* index.ts 2289-2296 and 2311, then adminResolveGame lines 507-527
AdminResolveStart(telegramId, winnerIdentifier) ==
  /\ CanStart
  /\ UNCHANGED <<transferVars, users, session, escrow>>
  /\ LET fail(e) == result' = Err("adminResolveGame", telegramId, e) /\ UNCHANGED calls
         side == parseInt(winnerIdentifier)
     IN IF telegramId # Admin
          THEN /\ result' = Err("game_admin", telegramId, "Only the admin can resolve disputes.")
               /\ UNCHANGED calls
        ELSE IF ~session.exists THEN fail("Game not found.")
        ELSE IF session.status # "disputed" THEN fail("Game is not disputed.")
        ELSE IF session.teamBased /\ side \notin {0, 1} THEN fail("Invalid side.")
        ELSE IF ~session.teamBased /\ winnerIdentifier \notin Ids(session.players)
          THEN fail("Winner is not a player in this game.")
        ELSE /\ Spawn([NoCall EXCEPT !.op = "adminResolveGame", !.pc = "update",
                          !.telegramId = telegramId,
                          !.side = IF session.teamBased THEN side ELSE Null,
                          !.winnerId = IF session.teamBased THEN "" ELSE winnerIdentifier])
             /\ UNCHANGED result

\* adminResolveGame completing the session without recording the winner it
\* was given
AdminResolveUpdateKeepingProposal(c) ==
  /\ result = NoResult /\ c.op = "adminResolveGame" /\ c.pc = "update"
  /\ session' = [session EXCEPT !.status = "completed"]
  /\ Advance(c, [NoCall EXCEPT !.op = "payoutWinners", !.pc = "read",
                               !.telegramId = c.telegramId])
  /\ UNCHANGED <<transferVars, users, escrow, result>>

\* lines 518-536: record the winner, complete the session, then payoutWinners
AdminResolveUpdate(c) ==
  /\ result = NoResult /\ c.op = "adminResolveGame" /\ c.pc = "update"
  /\ session' = [session EXCEPT
       !.proposedWinnerSide = c.side, !.proposedWinnerTelegramId = c.winnerId,
       !.status = "completed"]
  /\ Advance(c, [NoCall EXCEPT !.op = "payoutWinners", !.pc = "read",
                               !.telegramId = c.telegramId])
  /\ UNCHANGED <<transferVars, users, escrow, result>>

\* ---------------------------------------------------------------- switchTeam
\* lines 547-564
SwitchStart(telegramId) ==
  /\ CanStart
  /\ UNCHANGED <<transferVars, users, session, escrow>>
  /\ LET fail(e) == result' = Err("switchTeam", telegramId, e) /\ UNCHANGED calls
         mine == {i \in 1..Len(session.players) : session.players[i].telegramId = telegramId}
         first == CHOOSE i \in mine : \A j \in mine : i <= j
         newSide == IF session.players[first].side = 0 THEN 1 ELSE 0
     IN IF ~session.exists THEN fail("Game not found.")
        ELSE IF session.status # "waiting"
          THEN fail("Can only switch teams before the game starts.")
        ELSE IF ~session.teamBased THEN fail("This game doesn't have teams.")
        ELSE IF mine = {} THEN fail("You haven't joined this game.")
        ELSE IF CountSide(session.players, newSide) >= session.totalSlots \div 2
          THEN fail("Team is full.")
        ELSE /\ Spawn([NoCall EXCEPT !.op = "switchTeam", !.pc = "set",
                                     !.telegramId = telegramId, !.side = newSide])
             /\ UNCHANGED result

\* lines 566-572: the positional update sets the first matching player's side
SwitchSet(c) ==
  /\ result = NoResult /\ c.op = "switchTeam" /\ c.pc = "set"
  /\ LET mine == {i \in 1..Len(session.players) : session.players[i].telegramId = c.telegramId}
         first == CHOOSE i \in mine : \A j \in mine : i <= j
     IN session' = IF mine = {} THEN session
                   ELSE [session EXCEPT !.players[first].side = c.side]
  /\ Finish(c, Ok("switchTeam", c.telegramId))
  /\ UNCHANGED <<transferVars, users, escrow>>

\* ---------------------------------------------------------------- leaveGame
\* leaveGame without the check of lines 592-594 that turns the creator away
LeaveStartAnyPlayer(telegramId) ==
  /\ CanStart
  /\ UNCHANGED <<transferVars, users, session, escrow>>
  /\ LET fail(e) == result' = Err("leaveGame", telegramId, e) /\ UNCHANGED calls
     IN IF ~session.exists THEN fail("Game not found.")
        ELSE IF session.status # "waiting" THEN fail("Can only leave before the game starts.")
        ELSE IF telegramId \notin Ids(session.players) THEN fail("You haven't joined this game.")
        ELSE IF telegramId \notin users THEN fail("User not found.")
        ELSE /\ Spawn([NoCall EXCEPT !.op = "leaveGame", !.pc = "refund",
                          !.telegramId = telegramId,
                          !.amount = parseUnits(session.wagerPerPlayer, getTokenDecimals)])
             /\ UNCHANGED result

\* lines 583-600
LeaveStart(telegramId) ==
  /\ CanStart
  /\ UNCHANGED <<transferVars, users, session, escrow>>
  /\ LET fail(e) == result' = Err("leaveGame", telegramId, e) /\ UNCHANGED calls
     IN IF ~session.exists THEN fail("Game not found.")
        ELSE IF session.status # "waiting" THEN fail("Can only leave before the game starts.")
        ELSE IF telegramId \notin Ids(session.players) THEN fail("You haven't joined this game.")
        ELSE IF session.creatorTelegramId = telegramId
          THEN fail("The game creator can't leave. Use cancel instead.")
        ELSE IF telegramId \notin users THEN fail("User not found.")
        ELSE /\ Spawn([NoCall EXCEPT !.op = "leaveGame", !.pc = "refund",
                          !.telegramId = telegramId,
                          !.amount = parseUnits(session.wagerPerPlayer, getTokenDecimals)])
             /\ UNCHANGED result

\* leaveGame going on to remove the leaver although sendTokens threw
LeaveRefundUnchecked(c) ==
  /\ result = NoResult /\ c.op = "leaveGame" /\ c.pc = "refund"
  /\ UNCHANGED <<transferVars, users, session, result>>
  /\ \/ /\ CanSend(OWNER_SAFE_ADDRESS, c.amount)
        /\ escrow' = Sent(OWNER_SAFE_ADDRESS, c.telegramId, c.amount)
        /\ Advance(c, [c EXCEPT !.pc = "pull",
                                !.txHashes = <<[to |-> c.telegramId, amount |-> c.amount]>>])
     \/ /\ Advance(c, [c EXCEPT !.pc = "pull"])
        /\ UNCHANGED escrow

\* line 603: sendTokens(escrow, leaver, wagerWei) returns or throws
LeaveRefund(c) ==
  /\ result = NoResult /\ c.op = "leaveGame" /\ c.pc = "refund"
  /\ UNCHANGED <<transferVars, users, session>>
  /\ \/ /\ CanSend(OWNER_SAFE_ADDRESS, c.amount)
        /\ escrow' = Sent(OWNER_SAFE_ADDRESS, c.telegramId, c.amount)
        /\ Advance(c, [c EXCEPT !.pc = "pull",
                                !.txHashes = <<[to |-> c.telegramId, amount |-> c.amount]>>])
        /\ UNCHANGED result
     \/ /\ Finish(c, Err("leaveGame", c.telegramId, Thrown))
        /\ UNCHANGED escrow

\* lines 605-611: $pull removes every player entry of the leaver
LeavePull(c) ==
  /\ result = NoResult /\ c.op = "leaveGame" /\ c.pc = "pull"
  /\ session' = [session EXCEPT
       !.players = SelectSeq(@, LAMBDA p : p.telegramId # c.telegramId)]
  /\ Finish(c, [Ok("leaveGame", c.telegramId) EXCEPT !.txHashes = c.txHashes])
  /\ UNCHANGED <<transferVars, users, escrow>>

\* ---------------------------------------------------------------- transfer confirmation
\* index.ts: const PENDING_TRANSFER_TTL
PENDING_TRANSFER_TTL == 5 * 60 * 1000

\* the instants at which something happens: around one lifetime after 0 and 1
ClockValues == {0, 1, PENDING_TRANSFER_TTL, PENDING_TRANSFER_TTL + 1, PENDING_TRANSFER_TTL + 2}

\* usernames a transfer is addressed to; "ghost" has no wallet
RecipientInputs == {"u1", "u2", "ghost"}

\* amounts asked for: 10 tokens, and 99 tokens, which no account holds
AmountInputs == {<<1, 0>>, <<9, 9>>}

\* time passes
Tick ==
  /\ \E t \in ClockValues : t > now /\ now' = t
  /\ UNCHANGED <<bounty, users, session, escrow, calls, result, pendingTransfers, issued, ledgerCalls>>

\* requestTransferConfirm: a fresh id, the entry stamped with Date.now()
requestTransferConfirm(telegramId, recipientUsername, amount) ==
  /\ result = NoResult
  /\ \E id \in TransferIds \ issued :
       /\ issued' = issued \cup {id}
       /\ pendingTransfers' =
            [t \in DOMAIN pendingTransfers \cup {id} |->
               IF t = id
                 THEN [senderTelegramId |-> telegramId,
                       recipientUsername |-> recipientUsername,
                       amount |-> amount, createdAt |-> now]
                 ELSE pendingTransfers[t]]
  /\ UNCHANGED <<bounty, users, session, escrow, calls, result, now, ledgerCalls>>

\* pendingTransfers.delete(transferId)
Deleted(transferId) == [t \in DOMAIN pendingTransfers \ {transferId} |-> pendingTransfers[t]]

\* the callback if a confirmed entry stayed in the registry during the transfer
TransferCallbackKeeping(telegramId, confirm, transferId) ==
  /\ CanStart
  /\ UNCHANGED <<bounty, users, session, escrow, now, issued, ledgerCalls>>
  /\ LET op == IF confirm THEN "transfer_confirm" ELSE "transfer_cancel"
         answer(r) == result' = [r EXCEPT !.transferId = transferId] /\ UNCHANGED calls
     IN IF transferId \notin DOMAIN pendingTransfers
          THEN /\ answer(Err(op, telegramId, "This transfer is no longer available."))
               /\ UNCHANGED pendingTransfers
        ELSE IF now - pendingTransfers[transferId].createdAt > PENDING_TRANSFER_TTL
          THEN /\ pendingTransfers' = Deleted(transferId)
               /\ answer(Err(op, telegramId, "Transfer expired."))
        ELSE IF pendingTransfers[transferId].senderTelegramId # telegramId
          THEN /\ answer(Err(op, telegramId, "Only the sender can confirm this transfer."))
               /\ UNCHANGED pendingTransfers
        ELSE IF ~confirm
          THEN /\ pendingTransfers' = Deleted(transferId)
               /\ answer(Ok(op, telegramId))
        ELSE /\ UNCHANGED pendingTransfers
             /\ Spawn([NoCall EXCEPT !.op = "performTransfer", !.pc = "validate",
                  !.telegramId = telegramId, !.transferId = transferId,
                  !.senderTelegramId = pendingTransfers[transferId].senderTelegramId,
                  !.recipientUsername = pendingTransfers[transferId].recipientUsername,
                  !.amountStr = pendingTransfers[transferId].amount])
             /\ UNCHANGED result

\* the callback if it did not compare the caller with the stored sender
TransferCallbackAnyCaller(telegramId, confirm, transferId) ==
  /\ CanStart
  /\ UNCHANGED <<bounty, users, session, escrow, now, issued, ledgerCalls>>
  /\ LET op == IF confirm THEN "transfer_confirm" ELSE "transfer_cancel"
         answer(r) == result' = [r EXCEPT !.transferId = transferId] /\ UNCHANGED calls
     IN IF transferId \notin DOMAIN pendingTransfers
          THEN /\ answer(Err(op, telegramId, "This transfer is no longer available."))
               /\ UNCHANGED pendingTransfers
        ELSE IF now - pendingTransfers[transferId].createdAt > PENDING_TRANSFER_TTL
          THEN /\ pendingTransfers' = Deleted(transferId)
               /\ answer(Err(op, telegramId, "Transfer expired."))
        ELSE IF ~confirm
          THEN /\ pendingTransfers' = Deleted(transferId)
               /\ answer(Ok(op, telegramId))
        ELSE /\ pendingTransfers' = Deleted(transferId)
             /\ Spawn([NoCall EXCEPT !.op = "performTransfer", !.pc = "validate",
                  !.telegramId = telegramId, !.transferId = transferId,
                  !.senderTelegramId = pendingTransfers[transferId].senderTelegramId,
                  !.recipientUsername = pendingTransfers[transferId].recipientUsername,
                  !.amountStr = pendingTransfers[transferId].amount])
             /\ UNCHANGED result

\* the callback if it never compared the age of the entry with the TTL
TransferCallbackNoExpiry(telegramId, confirm, transferId) ==
  /\ CanStart
  /\ UNCHANGED <<bounty, users, session, escrow, now, issued, ledgerCalls>>
  /\ LET op == IF confirm THEN "transfer_confirm" ELSE "transfer_cancel"
         answer(r) == result' = [r EXCEPT !.transferId = transferId] /\ UNCHANGED calls
     IN IF transferId \notin DOMAIN pendingTransfers
          THEN /\ answer(Err(op, telegramId, "This transfer is no longer available."))
               /\ UNCHANGED pendingTransfers
        ELSE IF pendingTransfers[transferId].senderTelegramId # telegramId
          THEN /\ answer(Err(op, telegramId, "Only the sender can confirm this transfer."))
               /\ UNCHANGED pendingTransfers
        ELSE IF ~confirm
          THEN /\ pendingTransfers' = Deleted(transferId)
               /\ answer(Ok(op, telegramId))
        ELSE /\ pendingTransfers' = Deleted(transferId)
             /\ Spawn([NoCall EXCEPT !.op = "performTransfer", !.pc = "validate",
                  !.telegramId = telegramId, !.transferId = transferId,
                  !.senderTelegramId = pendingTransfers[transferId].senderTelegramId,
                  !.recipientUsername = pendingTransfers[transferId].recipientUsername,
                  !.amountStr = pendingTransfers[transferId].amount])
             /\ UNCHANGED result

\* the transfer_confirm_<id> / transfer_cancel_<id> callback, up to its first await
TransferCallback(telegramId, confirm, transferId) ==
  /\ CanStart
  /\ UNCHANGED <<bounty, users, session, escrow, now, issued, ledgerCalls>>
  /\ LET op == IF confirm THEN "transfer_confirm" ELSE "transfer_cancel"
         answer(r) == result' = [r EXCEPT !.transferId = transferId] /\ UNCHANGED calls
     IN IF transferId \notin DOMAIN pendingTransfers
          THEN /\ answer(Err(op, telegramId, "This transfer is no longer available."))
               /\ UNCHANGED pendingTransfers
        ELSE IF now - pendingTransfers[transferId].createdAt > PENDING_TRANSFER_TTL
          THEN /\ pendingTransfers' = Deleted(transferId)
               /\ answer(Err(op, telegramId, "Transfer expired."))
        ELSE IF pendingTransfers[transferId].senderTelegramId # telegramId
          THEN /\ answer(Err(op, telegramId, "Only the sender can confirm this transfer."))
               /\ UNCHANGED pendingTransfers
        ELSE IF ~confirm
          THEN /\ pendingTransfers' = Deleted(transferId)
               /\ answer(Ok(op, telegramId))
        ELSE /\ pendingTransfers' = Deleted(transferId)
             /\ Spawn([NoCall EXCEPT !.op = "performTransfer", !.pc = "validate",
                  !.telegramId = telegramId, !.transferId = transferId,
                  !.senderTelegramId = pendingTransfers[transferId].senderTelegramId,
                  !.recipientUsername = pendingTransfers[transferId].recipientUsername,
                  !.amountStr = pendingTransfers[transferId].amount])
             /\ UNCHANGED result

\* performTransfer up to the balance check: the reasons it returns a failure
PerformValidate(c) ==
  /\ result = NoResult /\ c.op = "performTransfer" /\ c.pc = "validate"
  /\ UNCHANGED <<transferVars, users, session, escrow>>
  /\ LET fail(e) == Finish(c, [Err("transfer_confirm", c.telegramId, e) EXCEPT
                                 !.transferId = c.transferId])
     IN IF c.senderTelegramId \notin users
          THEN fail("You don't have a wallet yet. Use /start first.")
        ELSE IF c.recipientUsername \notin users THEN fail("Recipient doesn't have a wallet.")
        ELSE IF c.senderTelegramId = c.recipientUsername
          THEN fail("You can't send tokens to yourself.")
        ELSE IF getTokenBalance(c.senderTelegramId) < parseUnits(c.amountStr, getTokenDecimals)
          THEN fail("Insufficient balance.")
        ELSE /\ Advance(c, [c EXCEPT !.pc = "send",
                               !.amount = parseUnits(c.amountStr, getTokenDecimals)])
             /\ UNCHANGED result

\* performTransfer's sendTokens is submitted, then returns or throws into the
\* handler's catch
PerformSend(c) ==
  /\ result = NoResult /\ c.op = "performTransfer" /\ c.pc = "send"
  /\ ledgerCalls' = [ledgerCalls EXCEPT ![c.transferId] = @ + 1]
  /\ UNCHANGED <<bounty, users, session, escrow, pendingTransfers, now, issued>>
  /\ \/ Finish(c, [Ok("transfer_confirm", c.telegramId) EXCEPT
                     !.transferId = c.transferId,
                     !.txHashes = <<[to |-> c.recipientUsername, amount |-> c.amount]>>])
     \/ Finish(c, [Err("transfer_confirm", c.telegramId, Thrown) EXCEPT
                     !.transferId = c.transferId])

\* ---------------------------------------------------------------- bounties
\* reward transfers followed per bounty; a further one is not explored
MaxSent == 2

\* what a bounty handler leaves alone
engineVars == <<users, session, escrow, pendingTransfers, now, issued, ledgerCalls>>

\* createBounty: Bounty.create with the schema's default status
createBounty(creatorTelegramId, amount) ==
  /\ CanStart /\ ~bounty.exists
  /\ bounty' = [NoBounty EXCEPT !.exists = TRUE, !.creatorTelegramId = creatorTelegramId,
                                !.amount = amount]
  /\ result' = Ok("createBounty", creatorTelegramId)
  /\ UNCHANGED <<engineVars, calls>>

\* claimBounty lines 84-96: the checks on the document read
ClaimStart(claimerTelegramId) ==
  /\ CanStart
  /\ UNCHANGED <<engineVars, bounty>>
  /\ LET fail(e) == result' = Err("claimBounty", claimerTelegramId, e) /\ UNCHANGED calls
     IN IF ~bounty.exists THEN fail("Bounty not found.")
        ELSE IF bounty.status # "open" THEN fail("This bounty is not open for claims.")
        ELSE IF bounty.creatorTelegramId = claimerTelegramId
          THEN fail("You can't claim your own bounty.")
        ELSE /\ Spawn([NoCall EXCEPT !.op = "claimBounty", !.pc = "claimer",
                                     !.telegramId = claimerTelegramId])
             /\ UNCHANGED result

\* claimBounty lines 98-109: the claimer's wallet, then the unconditional update
ClaimUpdate(c) ==
  /\ result = NoResult /\ c.op = "claimBounty" /\ c.pc = "claimer"
  /\ UNCHANGED engineVars
  /\ IF c.telegramId \notin users
       THEN /\ Finish(c, Err("claimBounty", c.telegramId,
                             "You don't have a wallet yet. Use /start first."))
            /\ UNCHANGED bounty
       ELSE /\ bounty' = [bounty EXCEPT !.status = "claimed",
                                        !.claimerTelegramId = c.telegramId]
            /\ Finish(c, Ok("claimBounty", c.telegramId))

\* the bounty_confirm_<id> / bounty_deny_<id> callback (index.ts 2333-2350)
BountyCallback(telegramId, confirm) ==
  /\ CanStart
  /\ UNCHANGED <<engineVars, bounty>>
  /\ LET op == IF confirm THEN "confirmBounty" ELSE "denyBounty"
         fail(e) == result' = Err(op, telegramId, e) /\ UNCHANGED calls
     IN IF ~bounty.exists THEN fail("Bounty not found.")
        ELSE IF bounty.creatorTelegramId # telegramId
          THEN fail("Only the bounty creator can do this.")
        ELSE IF bounty.status # "claimed" THEN fail("This bounty has no pending claim.")
        ELSE /\ Spawn([NoCall EXCEPT !.op = op, !.pc = IF confirm THEN "read" ELSE "update",
                                     !.telegramId = telegramId])
             /\ UNCHANGED result

\* denyBounty lines 170-177: reopened, whatever the status now is
DenyUpdate(c) ==
  /\ result = NoResult /\ c.op = "denyBounty" /\ c.pc = "update"
  /\ bounty' = [bounty EXCEPT !.status = "open", !.claimerTelegramId = ""]
  /\ Finish(c, Ok("denyBounty", c.telegramId))
  /\ UNCHANGED engineVars

\* confirmBounty lines 118-150: the document read again, the balance check
ConfirmRead(c) ==
  /\ result = NoResult /\ c.op = "confirmBounty" /\ c.pc = "read"
  /\ UNCHANGED <<engineVars, bounty>>
  /\ LET fail(e) == Finish(c, Err("confirmBounty", c.telegramId, e))
     IN IF bounty.status # "claimed" THEN fail("This bounty has no pending claim.")
        ELSE IF bounty.creatorTelegramId \notin users \/ bounty.claimerTelegramId \notin users
          THEN fail("Could not find the involved users.")
        ELSE IF getTokenBalance(bounty.creatorTelegramId) <
                  parseUnits(bounty.amount, getTokenDecimals)
          THEN fail("Insufficient balance.")
        ELSE /\ Advance(c, [c EXCEPT !.pc = "send",
                               !.claimerTelegramId = bounty.claimerTelegramId,
                               !.amount = parseUnits(bounty.amount, getTokenDecimals)])
             /\ UNCHANGED result

\* confirmBounty lines 152-157: sendTokens from the creator to the claimer
\* goes through, or throws into the handler's catch
ConfirmSend(c) ==
  /\ result = NoResult /\ c.op = "confirmBounty" /\ c.pc = "send"
  /\ UNCHANGED engineVars
  /\ \/ /\ bounty.sent < MaxSent
        /\ bounty' = [bounty EXCEPT !.sent = @ + 1]
        /\ Advance(c, [c EXCEPT !.pc = "complete",
             !.txHashes = <<[to |-> c.claimerTelegramId, amount |-> c.amount]>>])
        /\ UNCHANGED result
     \/ /\ Finish(c, Err("confirmBounty", c.telegramId, Thrown))
        /\ UNCHANGED bounty

\* confirmBounty lines 159-167
ConfirmComplete(c) ==
  /\ result = NoResult /\ c.op = "confirmBounty" /\ c.pc = "complete"
  /\ bounty' = [bounty EXCEPT !.status = "completed"]
  /\ Finish(c, [Ok("confirmBounty", c.telegramId) EXCEPT !.txHashes = c.txHashes])
  /\ UNCHANGED engineVars

\* cancelBounty lines 179-196: the checks on the document read
cancelBounty(telegramId) ==
  /\ CanStart
  /\ UNCHANGED <<engineVars, bounty>>
  /\ LET fail(e) == result' = Err("cancelBounty", telegramId, e) /\ UNCHANGED calls
     IN IF ~bounty.exists THEN fail("Bounty not found.")
        ELSE IF bounty.creatorTelegramId # telegramId
          THEN fail("Only the bounty creator can cancel it.")
        ELSE IF bounty.status = "completed" THEN fail("This bounty is already completed.")
        ELSE /\ Spawn([NoCall EXCEPT !.op = "cancelBounty", !.pc = "cancel",
                                     !.telegramId = telegramId])
             /\ UNCHANGED result

\* cancelBounty lines 198-200: the unconditional update
CancelBountyUpdate(c) ==
  /\ result = NoResult /\ c.op = "cancelBounty" /\ c.pc = "cancel"
  /\ bounty' = [bounty EXCEPT !.status = "cancelled"]
  /\ Finish(c, Ok("cancelBounty", c.telegramId))
  /\ UNCHANGED engineVars

\* ---------------------------------------------------------------- specification
\* accounts that press buttons: those with a wallet, and the admin
Callers == users \cup {Admin}

\* proposals offered to proposeWinner: a side, or a player id
WinnerSideInputs == {0, 1}

WinnerIdInputs == {"u1", "u2", "u4"}

\* identifiers offered to the game_admin callback
WinnerIdentifierInputs == {"0", "1", "u1", "u2", "u4"}

\* callbacks of the lobby: the bot enters the service function, when the
\* scheduling explored leaves it free to
LobbyStart(free) ==
  \/ \E g \in GameTypeInputs, u \in Creators, n \in SlotInputs, w \in WagerInputs :
       free /\ n <= Cardinality(users) /\ CreateStart(g, u, n, w)
  \/ \E u \in users, side \in SideInputs : free /\ JoinStart(u, side)
  \/ \E u \in users : free /\ CancelStart(u)
  \/ \E u \in Callers : free /\ AdminRefundStart(u)
  \/ \E u \in users : free /\ SwitchStart(u)
  \/ \E u \in users : free /\ LeaveStart(u)

\* callbacks of a started game
GameStart(free) ==
  \/ \E u \in users, side \in WinnerSideInputs : free /\ ProposeStart(u, side, "")
  \/ \E u \in users, w \in WinnerIdInputs : free /\ ProposeStart(u, Null, w)
  \/ \E u \in users, approved \in BOOLEAN : free /\ VoteStart(u, approved)
  \/ \E u \in Callers, w \in WinnerIdentifierInputs : free /\ AdminResolveStart(u, w)

\* an invocation in flight resumes after its await
LobbyResume ==
  \E c \in InFlight :
    \/ CreateCollect(c) \/ CreatePersist(c)
    \/ JoinCollect(c) \/ JoinPersist(c)
    \/ RefundRead(c) \/ RefundSend(c) \/ RefundCancel(c)
    \/ SwitchSet(c)
    \/ LeaveRefund(c) \/ LeavePull(c)

\* the steps of a vote, and of the payout an approving majority starts
VoteSteps(c) == VotePush(c) \/ VoteResolve(c) \/ PayoutRead(c) \/ PayoutSend(c)

GameResume ==
  \E c \in InFlight : ProposeUpdate(c) \/ VoteSteps(c) \/ AdminResolveUpdate(c)

\* the whole engine, one handler at a time: a callback is taken up only when
\* no invocation is in flight
NextSeq ==
  \/ LobbyStart(calls = EmptyBag)
  \/ GameStart(calls = EmptyBag)
  \/ LobbyResume
  \/ GameResume
  \/ Reply

SpecSeq == Init /\ [][NextSeq]_vars

\* the lobby under concurrent callbacks
NextLobby == LobbyStart(TRUE) \/ LobbyResume \/ Reply

SpecLobby == Init /\ [][NextLobby]_vars

\* ---------------------------------------------------------------- started games
\* the accounts in the order they joined
PlayerSeq == <<"u1", "u2", "u3", "u4">>

\* game types and player counts of the started sessions explored
StartedInputs == {<<"blackjack", 2>>, <<"blackjack", 3>>, <<"blackjack", 4>>, <<"beer_pong", 2>>}

\* the session createGameSession and n - 1 joins without a chosen side leave:
\* active, the creator first, sides balanced as JoinSide balances them
Started(gameType, n) ==
  [NoSession EXCEPT
     !.exists = TRUE, !.gameType = gameType, !.creatorTelegramId = PlayerSeq[1],
     !.wagerPerPlayer = <<1, 0>>, !.totalSlots = n,
     !.teamBased = getGameConfig(gameType).teamBased, !.status = "active",
     !.players = [i \in 1..n |->
        [telegramId |-> PlayerSeq[i],
         side |-> IF getGameConfig(gameType).teamBased THEN (i - 1) % 2 ELSE 0,
         paid |-> TRUE]]]

InitGame ==
  \E cfg \in StartedInputs :
    /\ NoTransfers
    /\ users = Users
    /\ session = Started(cfg[1], cfg[2])
    /\ escrow = Treasury + cfg[2] * parseUnits(<<1, 0>>, getTokenDecimals)
    /\ calls = EmptyBag
    /\ result = NoResult

\* the refund steps, which the admin's refund callback reaches in any status
RefundResume == \E c \in InFlight : RefundRead(c) \/ RefundSend(c) \/ RefundCancel(c)

AdminRefund(free) == \E u \in Callers : free /\ AdminRefundStart(u)

\* a started game, one handler at a time
NextGameSeq ==
  \/ GameStart(calls = EmptyBag)
  \/ AdminRefund(calls = EmptyBag)
  \/ GameResume
  \/ RefundResume
  \/ Reply

SpecGameSeq == InitGame /\ [][NextGameSeq]_vars

\* ---------------------------------------------------------------- voting rounds
\* the winners proposed in the rounds explored: a side, or a player id
ProposalInputs == {<<"blackjack", 2, Null, "u1">>, <<"blackjack", 3, Null, "u2">>,
                   <<"beer_pong", 2, 0, "">>}

\* a started session after ProposeUpdate: voting, no votes yet
InitVote ==
  \E p \in ProposalInputs :
    /\ NoTransfers
    /\ users = Users
    /\ session = [Started(p[1], p[2]) EXCEPT
         !.status = "voting", !.proposedWinnerSide = p[3],
         !.proposedWinnerTelegramId = p[4]]
    /\ escrow = Treasury + p[2] * parseUnits(<<1, 0>>, getTokenDecimals)
    /\ calls = EmptyBag
    /\ result = NoResult

CastVote == \E u \in users, approved \in BOOLEAN : VoteStart(u, approved)

VoteResume == \E c \in InFlight : VoteSteps(c)

\* a voting round under concurrent game_vote callbacks
NextVote == CastVote \/ VoteResume \/ Reply

SpecVote == InitVote /\ [][NextVote]_vars

\* ---------------------------------------------------------------- confirmations
RequestTransfer ==
  \E u \in {"u1", "u2"}, r \in RecipientInputs, a \in AmountInputs :
    requestTransferConfirm(u, r, a)

ConfirmOrCancel ==
  \E u \in {"u1", "u2"}, confirm \in BOOLEAN, id \in TransferIds :
    TransferCallback(u, confirm, id)

TransferResume == \E c \in InFlight : PerformValidate(c) \/ PerformSend(c)

\* transfers waiting for their sender's confirmation, under concurrent callbacks
NextPending == RequestTransfer \/ ConfirmOrCancel \/ TransferResume \/ Tick \/ Reply

SpecPending == InitWith(Users) /\ [][NextPending]_vars

\* ---------------------------------------------------------------- payouts
\* game types and player counts of the completed sessions explored
CompletedInputs == {<<"blackjack", 2>>, <<"blackjack", 3>>, <<"blackjack", 4>>,
                    <<"beer_pong", 2>>, <<"beer_pong", 4>>}

\* a session the votes have just completed, payoutWinners about to read it:
\* different accounts as players, on the sides that joins and switches taken
\* up together can leave them, and the winner a side or one of the players
InitPayout ==
  \E cfg \in CompletedInputs :
    \E sides \in [1..cfg[2] -> {0, 1}], w \in 1..cfg[2], side \in {0, 1} :
      LET teamBased == getGameConfig(cfg[1]).teamBased
      IN /\ teamBased \/ (side = 0 /\ \A i \in 1..cfg[2] : sides[i] = 0)
         /\ teamBased => w = 1
         /\ NoTransfers
         /\ users = Users
         /\ session = [Started(cfg[1], cfg[2]) EXCEPT
              !.status = "completed",
              !.players = [i \in 1..cfg[2] |->
                 [telegramId |-> PlayerSeq[i], side |-> sides[i], paid |-> TRUE]],
              !.votes = [i \in 1..Majority(cfg[2]) |->
                 [telegramId |-> PlayerSeq[i], approved |-> TRUE]],
              !.proposedWinnerSide = IF teamBased THEN side ELSE Null,
              !.proposedWinnerTelegramId = IF teamBased THEN "" ELSE PlayerSeq[w]]
         /\ escrow = Treasury + cfg[2] * parseUnits(<<1, 0>>, getTokenDecimals)
         /\ calls = SetToBag({[NoCall EXCEPT !.op = "payoutWinners", !.pc = "read",
                                              !.telegramId = PlayerSeq[Majority(cfg[2])]]})
         /\ result = NoResult

PayoutResume == \E c \in InFlight : PayoutRead(c) \/ PayoutSend(c)

\* payoutWinners on a completed session
NextPayout == PayoutResume \/ Reply

SpecPayout == InitPayout /\ [][NextPayout]_vars

\* ---------------------------------------------------------------- refunds
\* player counts of the documents refundGame is run on
RefundSlots == {2, 3}

\* GameSession documents as the schema admits them: every player entry has
\* its paid flag, which defaults to false; the escrow holds the stakes of the
\* entries flagged paid
InitRefund ==
  \E n \in RefundSlots, status \in {"waiting", "active"} :
    \E k \in 1..n, paid \in [1..n -> BOOLEAN] :
      /\ status = "active" => k = n
      /\ NoTransfers
      /\ users = Users
      /\ session = [Started("blackjack", n) EXCEPT
           !.status = status,
           !.players = [i \in 1..k |->
              [telegramId |-> PlayerSeq[i], side |-> 0, paid |-> paid[i]]]]
      /\ escrow = Treasury + Len(PaidIds(session.players)) * parseUnits(<<1, 0>>, getTokenDecimals)
      /\ calls = EmptyBag
      /\ result = NoResult

\* refundGame, from the creator's cancel or the admin's refund, one at a time
NextRefund ==
  \/ \E u \in Callers : calls = EmptyBag /\ CancelStart(u)
  \/ AdminRefund(calls = EmptyBag)
  \/ RefundResume
  \/ Reply

SpecRefund == InitRefund /\ [][NextRefund]_vars

\* ---------------------------------------------------------------- bounty board
\* accounts that use the bounty commands; "u4" has no wallet here
BountyCallers == {"u1", "u2", "u3", "u4"}

BountyStart ==
  \/ \E u \in Creators, a \in AmountInputs : createBounty(u, a)
  \/ \E u \in BountyCallers : ClaimStart(u)
  \/ \E u \in BountyCallers, confirm \in BOOLEAN : BountyCallback(u, confirm)
  \/ \E u \in BountyCallers : cancelBounty(u)

BountyResume ==
  \E c \in InFlight :
    \/ ClaimUpdate(c) \/ DenyUpdate(c)
    \/ ConfirmRead(c) \/ ConfirmSend(c) \/ ConfirmComplete(c)
    \/ CancelBountyUpdate(c)

\* one bounty under concurrent commands and callbacks
NextBounty == BountyStart \/ BountyResume \/ Reply

SpecBounty == Init /\ [][NextBounty]_vars

\* ---------------------------------------------------------------- game_wager callback
\* index.ts 2090: what the creator reads when the handler's catch is taken
FailedToCreate == "Failed to create game. Please try again."

\* index.ts 2040-2058: the creator has picked game, player count and wager;
\* the handler calls createGameSession
WagerStart ==
  \E g \in GameTypeInputs, u \in users, n \in SlotInputs, w \in WagerInputs :
    calls = EmptyBag /\ CreateStart(g, u, n, w)

\* index.ts 2062-2069: createGameSession returned success; getSession,
\* getTokenSymbol and the "created!" edit of the creator's message, any of
\* which can throw into the catch of line 2088
WagerCreated ==
  /\ result.op = "createGameSession" /\ result.success
  /\ calls = EmptyBag
  /\ UNCHANGED <<transferVars, users, session, escrow>>
  /\ \/ /\ result' = [Ok("game_wager", result.telegramId) EXCEPT !.txHashes = result.txHashes]
        /\ calls' = SetToBag({[NoCall EXCEPT !.op = "game_wager", !.pc = "lobby",
                                             !.telegramId = result.telegramId]})
     \/ /\ result' = Err("game_wager", result.telegramId, FailedToCreate)
        /\ UNCHANGED calls

\* index.ts 2070 and sendLobbyMessage (1725-1747): the lobby photo is posted
\* and its message id stored, or sendPhoto throws into the catch of line 2088
WagerLobby(c) ==
  /\ c.op = "game_wager" /\ c.pc = "lobby"
  /\ UNCHANGED <<transferVars, users, escrow>>
  /\ \/ /\ session' = [session EXCEPT !.lobbyMessageId = 1]
        /\ Advance(c, [c EXCEPT !.pc = "qr"])
        /\ UNCHANGED result
     \/ /\ Finish(c, Err("game_wager", c.telegramId, FailedToCreate))
        /\ UNCHANGED session

\* index.ts 2073-2087: the QR code is sent to the creator; a failure is caught
\* and logged
WagerQr(c) ==
  /\ c.op = "game_wager" /\ c.pc = "qr"
  /\ calls' = calls (-) SetToBag({c})
  /\ UNCHANGED <<transferVars, users, session, escrow, result>>

WagerResume ==
  \E c \in InFlight : CreateCollect(c) \/ CreatePersist(c) \/ WagerLobby(c) \/ WagerQr(c)

\* the creator has read the final text of the message
WagerReply ==
  /\ calls = EmptyBag
  /\ ~(result.op = "createGameSession" /\ result.success)
  /\ Reply

\* one creation through the game_wager callback, by any account
NextWager == WagerStart \/ WagerCreated \/ WagerResume \/ WagerReply

SpecWager == Init /\ [][NextWager]_vars

\* ---------------------------------------------------------------- properties
\* const wagerWei = parseUnits(session.wagerPerPlayer, decimals)
wagerWei == parseUnits(session.wagerPerPlayer, getTokenDecimals)

\* C1: once the session is completed or cancelled and no handler is running,
\* what left the escrow for it equals the stakes that came in, up to
\* winnerCount - 1 units of rounding: the escrow holds its treasury again,
\* plus at most that remainder
EscrowSettled ==
  (session.exists /\ session.status \in {"completed", "cancelled"} /\ calls = EmptyBag)
    => LET winnerCount == IF session.status = "completed" THEN Len(WinnerIds(session)) ELSE 0
           loss == IF winnerCount > 0 THEN winnerCount - 1 ELSE 0
       IN (escrow - Treasury) \in 0..loss

\* C2: under concurrent joins by different accounts (no account is in the
\* player list twice) the player list never outgrows totalSlots, and a full
\* player list is never seen while the status is still waiting
JoinRespectsSlots ==
  (session.exists /\ \A u \in Users : CountId(session.players, u) <= 1) =>
    /\ Len(session.players) <= session.totalSlots
    /\ ~(Len(session.players) = session.totalSlots /\ session.status = "waiting")

\* C3: in a voting round no player has more than one recorded vote, however
\* the game_vote callbacks of that player interleave
OneVotePerPlayer == \A u \in Users : CountId(session.votes, u) <= 1

\* C4: a castVote that returns leaves the session completed if the approvals
\* reached floor(n/2)+1, disputed if the denials did, and voting otherwise,
\* and reports exactly that
MajorityResolves ==
  [][(result = NoResult /\ result'.op = "castVote" /\ result'.success) =>
       LET n == Len(session'.players)
           needed == (n \div 2) + 1
           status == IF Approvals(session'.votes) >= needed THEN "completed"
                     ELSE IF Denials(session'.votes) >= needed THEN "disputed"
                     ELSE "voting"
       IN /\ session.status = "voting"
          /\ session'.status = status
          /\ result'.resolved = (status # "voting")
          /\ result'.approved = (status = "completed")]_vars

\* C4 witness: four players, two approvals and two denials, all votes in,
\* and the round is still open
TiedRoundStaysOpen ==
  /\ session.status = "voting" /\ Len(session.players) = 4
  /\ Approvals(session.votes) = 2 /\ Denials(session.votes) = 2
  /\ calls = EmptyBag /\ result.op = "castVote" /\ result.success /\ ~result.resolved

\* C5: per transfer id performTransfer submits at most one ledger transfer;
\* while it runs the id is already out of the registry; an id once removed
\* never comes back; and a confirm for an id whose transfer was started is
\* answered "no longer available"
ConfirmedAtMostOnce ==
  /\ [](/\ \A id \in TransferIds : ledgerCalls[id] <= 1
        /\ \A c \in InFlight : c.op = "performTransfer" =>
              c.transferId \notin DOMAIN pendingTransfers)
  /\ [][/\ \A id \in issued : id \notin DOMAIN pendingTransfers =>
              id \notin DOMAIN pendingTransfers'
        /\ \A id \in issued :
             (/\ result = NoResult /\ result'.op = "transfer_confirm" /\ calls' = calls
              /\ result'.transferId = id
              /\ (ledgerCalls[id] > 0 \/ \E c \in InFlight : c.transferId = id))
               => result'.error = "This transfer is no longer available."]_vars

\* C5 witness: the sender's second confirm is answered "no longer available"
\* while the transfer of the first is still in flight
SecondConfirmNotFound ==
  \E c \in InFlight :
    /\ c.op = "performTransfer" /\ c.pc = "send"
    /\ result.op = "transfer_confirm" /\ result.transferId = c.transferId
    /\ result.telegramId = c.telegramId
    /\ result.error = "This transfer is no longer available."
    /\ ledgerCalls[c.transferId] = 0

\* C6: the step that creates the session finds the creator's stake in the
\* escrow, and creates it waiting with the creator as its only player, side 0,
\* paid; a createGameSession that fails leaves no session
CreateAfterStake ==
  [][/\ (~session.exists /\ session'.exists) =>
          /\ escrow' = Treasury + parseUnits(session'.wagerPerPlayer, getTokenDecimals)
          /\ session'.status = "waiting"
          /\ session'.players =
               <<[telegramId |-> session'.creatorTelegramId, side |-> 0, paid |-> TRUE]>>
          /\ result'.op = "createGameSession" /\ result'.success
          /\ result'.telegramId = session'.creatorTelegramId
     /\ (result = NoResult /\ result'.op = "createGameSession" /\ ~result'.success) =>
          (~session'.exists /\ escrow' = escrow)]_vars

\* C6 witness: createGameSession has just returned the new session
SessionCreated ==
  /\ result.op = "createGameSession" /\ result.success
  /\ session.exists /\ session.status = "waiting" /\ Len(session.players) = 1
  /\ escrow = Treasury + wagerWei

\* C7: a player is appended only by a join that holds the receipt of its
\* stake, a receipt is obtained only as the escrow grows by the stake, and a
\* join that fails leaves the session as it was
JoinAfterStake ==
  [][/\ \A u \in Users :
          (session.exists /\ CountId(session'.players, u) > CountId(session.players, u)) =>
             \E c \in InFlight :
               /\ c.op = "joinGameSession" /\ c.telegramId = u /\ c.pc = "persist"
               /\ c.txHashes = <<[to |-> OWNER_SAFE_ADDRESS, amount |-> wagerWei]>>
     /\ \A c \in InFlight :
          (c.op = "joinGameSession" /\ c.pc = "collect"
           /\ CopiesIn(c, calls') < CopiesIn(c, calls)) =>
             \/ /\ escrow' = escrow + wagerWei
                /\ [c EXCEPT !.pc = "persist",
                      !.txHashes = <<[to |-> OWNER_SAFE_ADDRESS, amount |-> wagerWei]>>]
                     \in InFlight'
                /\ session' = session
             \/ /\ escrow' = escrow
                /\ result'.op = "joinGameSession" /\ ~result'.success
                /\ result'.telegramId = c.telegramId
     /\ (result = NoResult /\ result'.op = "joinGameSession" /\ ~result'.success) =>
          session' = session]_vars

\* C7 witness: a join has just returned after appending the joiner
JoinerAppended ==
  /\ result.op = "joinGameSession" /\ result.success
  /\ Len(session.players) >= 2
  /\ result.telegramId = session.players[Len(session.players)].telegramId

\* C8: once the status is completed or cancelled, no step changes it
TerminalStatusStays ==
  [][(session.exists /\ session.status \in {"completed", "cancelled"}) =>
       session'.status = session.status]_vars

\* C9: every change of the status is one of waiting->active, active->voting,
\* voting->completed, voting->disputed, waiting->cancelled, disputed->completed
OnlyListedTransitions ==
  [][(session.exists /\ session'.status # session.status) =>
       <<session.status, session'.status>> \in
         { <<"waiting", "active">>, <<"active", "voting">>, <<"voting", "completed">>,
           <<"voting", "disputed">>, <<"waiting", "cancelled">>,
           <<"disputed", "completed">> }]_vars

\* C10: a leaveGame that succeeds was called by a player other than the
\* creator while the session was waiting, moved the wager out of the escrow
\* once, returns that one transfer to the leaver, and leaves the player list
\* one shorter and without the leaver; a leaveGame by the creator fails and
\* changes neither the session nor the escrow
LeaveRefundsOnce ==
  [][/\ (result = NoResult /\ result'.op = "leaveGame" /\ result'.success) =>
          /\ result'.telegramId # session.creatorTelegramId
          /\ session.status = "waiting"
          /\ result'.txHashes = <<[to |-> result'.telegramId, amount |-> wagerWei]>>
          /\ Len(session'.players) = Len(session.players) - 1
          /\ result'.telegramId \notin Ids(session'.players)
     /\ \A c \in InFlight : c.op = "leaveGame" =>
          /\ c.telegramId # session.creatorTelegramId
          /\ c.pc = "refund" =>
               \/ escrow' = escrow - wagerWei /\ result' = NoResult /\ session' = session
               \/ escrow' = escrow /\ ~result'.success /\ session' = session
          /\ c.pc = "pull" =>
               escrow' = escrow /\ result'.success /\ result'.op = "leaveGame"
     /\ (/\ result = NoResult /\ result'.op = "leaveGame" /\ session.exists
         /\ result'.telegramId = session.creatorTelegramId) =>
          (~result'.success /\ session' = session /\ escrow' = escrow /\ calls' = calls)]_vars

\* C10 witness: a player other than the creator has just left and holds the
\* refund
LeaverRefunded ==
  /\ result.op = "leaveGame" /\ result.success
  /\ result.txHashes = <<[to |-> result.telegramId, amount |-> wagerWei]>>
  /\ session.status = "waiting" /\ Len(session.players) = 1
  /\ escrow = Treasury + wagerWei

\* C11: a cancelGame by the creator of a waiting session that holds only the
\* creator takes the wager out of the escrow in one step at most, and when it
\* returns success it returns exactly that one transfer, of the wager to the
\* creator, and leaves the session cancelled
CreateCancelRoundTrip ==
  [][/\ \A c \in InFlight :
          (/\ c.op = "refundGame" /\ c.telegramId = session.creatorTelegramId
           /\ session.status = "waiting" /\ Len(session.players) = 1) =>
             \/ c.pc = "read" /\ escrow' = escrow
             \/ c.pc = "refund" /\ c.txHashes = <<>> /\ escrow' \in {escrow, escrow - wagerWei}
             \/ c.pc = "cancel" /\ Len(c.txHashes) = 1 /\ escrow' = escrow
     /\ (/\ result = NoResult /\ result'.op = "refundGame" /\ result'.success
      /\ result'.telegramId = session.creatorTelegramId
      /\ session.status = "waiting"
      /\ session.players =
           <<[telegramId |-> session.creatorTelegramId, side |-> 0, paid |-> TRUE]>>) =>
       (/\ result'.txHashes = <<[to |-> session.creatorTelegramId, amount |-> wagerWei]>>
        /\ session'.status = "cancelled"
        /\ session'.players = session.players
        /\ escrow' = escrow
        /\ \A c \in InFlight :
            /\ c.op = "refundGame" /\ c.pc = "cancel"
            /\ c.todo = <<>> /\ c.amount = wagerWei)]_vars

\* C11 witness: the creator's cancel of the freshly created session has just
\* returned the one refund
CreatorCancelled ==
  /\ result.op = "refundGame" /\ result.success
  /\ result.telegramId = session.creatorTelegramId
  /\ result.txHashes = <<[to |-> session.creatorTelegramId, amount |-> wagerWei]>>
  /\ session.status = "cancelled" /\ Len(session.players) = 1
  /\ escrow = Treasury

\* four players of a game without teams at a wager of 10 tokens each, and a
\* player proposed as the winner
FourPlayerRound ==
  /\ session.exists /\ ~session.teamBased /\ Len(session.players) = 4
  /\ wagerWei = 10 * Pow10(getTokenDecimals)
  /\ session.proposedWinnerTelegramId \in Ids(session.players)

\* C12: in a round of four players at 10 tokens each with a player proposed
\* as the winner, the castVote that records the third approval completes the
\* session and starts payoutWinners; that payout sends to the proposed winner
\* only, 40 tokens, in at most one step, and when it returns success it
\* returns exactly that one transfer
ThreeOfFourPaysWinner ==
  [][FourPlayerRound =>
      LET pot == 40 * Pow10(getTokenDecimals)
          winner == session.proposedWinnerTelegramId
      IN /\ (/\ session.status = "voting" /\ result = NoResult
              /\ result'.op = "castVote" /\ result'.success
              /\ Approvals(session'.votes) = 3) =>
                /\ session'.status = "completed"
                /\ result'.resolved /\ result'.approved
                /\ \E c \in DOMAIN calls' : c.op = "payoutWinners" /\ c.pc = "read"
         /\ \A c \in InFlight :
              c.op = "payoutWinners" =>
                \/ c.pc = "read" /\ escrow' = escrow
                \/ /\ c.pc = "pay" /\ c.todo = <<winner>> /\ c.amount = pot
                   /\ \/ escrow' = escrow - pot /\ result'.success
                      \/ escrow' = escrow /\ ~result'.success
         /\ (result = NoResult /\ result'.op = "payoutWinners" /\ result'.success) =>
              result'.txHashes = <<[to |-> winner, amount |-> pot]>>]_vars

\* C12 witness: three approvals of four, the fourth player proposed, the
\* session completed and the pot of 40 paid to that player in one transfer
FourthPlayerPaid ==
  /\ FourPlayerRound /\ session.status = "completed"
  /\ session.proposedWinnerTelegramId = "u4"
  /\ Approvals(session.votes) = 3 /\ Len(session.votes) = 3
  /\ result.op = "payoutWinners" /\ result.success
  /\ result.txHashes = <<[to |-> "u4", amount |-> 4000]>>
  /\ escrow = Treasury

\* four players of a game without teams at a wager of 10 tokens each
FourPlayers ==
  /\ session.exists /\ ~session.teamBased /\ Len(session.players) = 4
  /\ wagerWei = 10 * Pow10(getTokenDecimals)

\* C13 as stated: in a round of four players, the castVote that leaves two
\* approvals and two denials recorded sets the status to disputed
SplitVoteDisputes ==
  [][(/\ FourPlayers /\ session.status = "voting" /\ result = NoResult
      /\ result'.op = "castVote" /\ result'.success
      /\ Approvals(session'.votes) = 2 /\ Denials(session'.votes) = 2) =>
        session'.status = "disputed"]_vars

\* C13: in a round of four players at 10 tokens each, a 2-2 split leaves the
\* status voting, and adminResolveGame is rejected while it is; the third
\* denial sets the status to disputed and moves no funds; adminResolveGame
\* naming a player of a disputed session records that player, completes the
\* session and starts payoutWinners, whose success is one transfer of 40
\* tokens to the player named
DisputeResolvedByAdmin ==
  [][FourPlayers =>
      LET pot == 40 * Pow10(getTokenDecimals)
      IN /\ (/\ session.status = "voting" /\ result = NoResult
              /\ result'.op = "castVote" /\ result'.success) =>
                /\ escrow' = escrow
                /\ (Approvals(session'.votes) = 2 /\ Denials(session'.votes) = 2) =>
                     session'.status = "voting" /\ ~result'.resolved
                /\ Denials(session'.votes) = 3 =>
                     session'.status = "disputed" /\ result'.resolved /\ ~result'.approved
         /\ (result = NoResult /\ result'.op = "adminResolveGame") =>
              /\ ~result'.success /\ UNCHANGED <<session, escrow>>
              /\ session.status # "disputed" => result'.error = "Game is not disputed."
         /\ \A c \in InFlight :
              c.op = "adminResolveGame" =>
                /\ session.status = "disputed" /\ c.winnerId \in Ids(session.players)
                /\ session'.status = "completed"
                /\ session'.proposedWinnerTelegramId = c.winnerId
                /\ escrow' = escrow
                /\ \E d \in DOMAIN calls' : d.op = "payoutWinners" /\ d.telegramId = Admin
         /\ (/\ result = NoResult /\ result'.op = "payoutWinners"
              /\ result'.telegramId = Admin /\ result'.success) =>
                /\ session.status = "completed" /\ Denials(session.votes) = 3
                /\ result'.txHashes =
                     <<[to |-> session.proposedWinnerTelegramId, amount |-> pot]>>
                /\ escrow' = escrow - pot]_vars

\* C13 witness: three denials disputed a proposal for the first player, the
\* admin named the second player, and the pot of 40 went to the second player
AdminPaidSecondPlayer ==
  /\ FourPlayers /\ session.status = "completed"
  /\ Denials(session.votes) = 3
  /\ session.proposedWinnerTelegramId = "u2"
  /\ result.op = "payoutWinners" /\ result.telegramId = Admin /\ result.success
  /\ result.txHashes = <<[to |-> "u2", amount |-> 4000]>>
  /\ escrow = Treasury

\* C14: a session always holds at least one player and never more players
\* than totalSlots, however the lobby callbacks interleave
PlayersWithinSlots ==
  session.exists =>
    0 < Len(session.players) /\ Len(session.players) <= session.totalSlots

\* C15: no account is in the player list of a session more than once,
\* however the join callbacks of that account interleave
OneSeatPerAccount == \A u \in Users : CountId(session.players, u) <= 1

\* the winner fields of the session: null is Null for the side, "" for the id
SideSet == session.proposedWinnerSide # Null

PlayerSet == session.proposedWinnerTelegramId # ""

\* C16 as stated: exactly one winner field is set while the status is voting,
\* and both are unset in every other status
ProposalOnlyWhileVoting ==
  session.exists =>
    IF session.status = "voting" THEN SideSet # PlayerSet
    ELSE ~SideSet /\ ~PlayerSet

\* C16: exactly one winner field is set while the status is voting, disputed
\* or completed, both are unset while the status is waiting, and a step that
\* changes either field leaves the status voting or completed
ProposalKeptOnceVoting ==
  [][/\ session.exists =>
          /\ session.status \in {"voting", "disputed", "completed"} => SideSet # PlayerSet
          /\ session.status = "waiting" => ~SideSet /\ ~PlayerSet
     /\ (\/ session'.proposedWinnerSide # session.proposedWinnerSide
         \/ session'.proposedWinnerTelegramId # session.proposedWinnerTelegramId) =>
           session'.status \in {"voting", "completed"}]_vars

\* C16 witness: a team game completed by its votes and paid, the winning side
\* still recorded and no winning player
SideKeptAfterCompletion ==
  /\ session.exists /\ session.status = "completed" /\ session.teamBased
  /\ SideSet /\ ~PlayerSet
  /\ Approvals(session.votes) >= Majority(Len(session.players))
  /\ result.op = "payoutWinners" /\ result.success

\* Date.now() - pending.createdAt > PENDING_TRANSFER_TTL
Expired(transferId) ==
  now - pendingTransfers[transferId].createdAt > PENDING_TRANSFER_TTL

\* the callback that has just been answered concerns this entry of the registry
AnsweredFor(id) ==
  /\ result = NoResult /\ result'.op \in {"transfer_confirm", "transfer_cancel"}
  /\ calls' = calls /\ result'.transferId = id /\ id \in DOMAIN pendingTransfers

\* C17: a transfer is submitted to the ledger only by a performTransfer that
\* a confirm started, and a confirm starts one only for an unexpired entry of
\* the registry and only for the stored sender; a confirm or cancel by anyone
\* else on an unexpired entry is rejected and changes neither the registry
\* nor the ledger; a cancel that succeeds comes from the sender, finds no
\* transfer submitted or in flight for the entry and removes the entry, and
\* a removed entry never returns
OnlySenderConfirms ==
  [][\A id \in TransferIds :
       /\ ledgerCalls'[id] # ledgerCalls[id] =>
            \E c \in InFlight :
              /\ c.op = "performTransfer" /\ c.pc = "send" /\ c.transferId = id
              /\ c.telegramId = c.senderTelegramId
       /\ \A d \in DOMAIN calls' :
            (d.op = "performTransfer" /\ d.pc = "validate" /\ d.transferId = id
               /\ CopiesIn(d, calls') > CopiesIn(d, calls)) =>
              /\ id \in DOMAIN pendingTransfers /\ ~Expired(id)
              /\ d.telegramId = pendingTransfers[id].senderTelegramId
              /\ d.senderTelegramId = pendingTransfers[id].senderTelegramId
              /\ id \notin DOMAIN pendingTransfers'
       /\ (/\ AnsweredFor(id) /\ ~Expired(id)
           /\ result'.telegramId # pendingTransfers[id].senderTelegramId) =>
             /\ result'.error = "Only the sender can confirm this transfer."
             /\ UNCHANGED <<pendingTransfers, ledgerCalls>>
       /\ (AnsweredFor(id) /\ result'.op = "transfer_cancel" /\ result'.success) =>
             /\ result'.telegramId = pendingTransfers[id].senderTelegramId
             /\ id \notin DOMAIN pendingTransfers'
             /\ ledgerCalls'[id] = 0
             /\ \A c \in InFlight : c.transferId # id
       /\ (id \in issued /\ id \notin DOMAIN pendingTransfers) =>
             id \notin DOMAIN pendingTransfers']_vars

\* C17 witness: a confirm by an account that is not the sender has been
\* rejected, the entry is still in the registry, and nothing was submitted
StrangerRejected ==
  \E id \in DOMAIN pendingTransfers :
    /\ result.op = "transfer_confirm" /\ result.transferId = id
    /\ result.telegramId # pendingTransfers[id].senderTelegramId
    /\ result.error = "Only the sender can confirm this transfer."
    /\ ~Expired(id) /\ ledgerCalls[id] = 0
    /\ \A c \in InFlight : c.transferId # id

\* C18: a confirm or cancel for an entry of the registry older than the TTL,
\* whoever sends it, is answered "Transfer expired.", removes the entry,
\* starts no transfer and submits nothing; no step submits a transfer for an
\* entry still in the registry; and an entry exactly as old as the TTL is not
\* yet expired
ExpiredNeverTransfers ==
  [][\A id \in TransferIds :
       /\ (AnsweredFor(id) /\ Expired(id)) =>
             /\ result'.error = "Transfer expired." /\ ~result'.success
             /\ id \notin DOMAIN pendingTransfers'
             /\ UNCHANGED ledgerCalls
       /\ (id \in DOMAIN pendingTransfers /\ Expired(id)) =>
             /\ ledgerCalls'[id] = ledgerCalls[id]
             /\ \A d \in DOMAIN calls' :
                  (d.transferId = id /\ d.pc = "validate") =>
                    CopiesIn(d, calls') <= CopiesIn(d, calls)
       /\ (AnsweredFor(id) /\ result'.error = "Transfer expired.") => Expired(id)]_vars

\* C18 witness: the sender's confirm arrived after the TTL, was answered
\* "Transfer expired.", and the entry is gone with nothing submitted
LateConfirmExpired ==
  \E id \in issued :
    /\ result.op = "transfer_confirm" /\ result.transferId = id
    /\ result.error = "Transfer expired."
    /\ id \notin DOMAIN pendingTransfers
    /\ now > PENDING_TRANSFER_TTL
    /\ ledgerCalls[id] = 0
    /\ \A c \in InFlight : c.transferId # id

\* C19: when every vote recorded comes from a different player and no castVote
\* is in flight, recorded approvals of a strict majority mean the session is
\* completed and recorded denials of a strict majority mean it is disputed
RecordedMajorityDecides ==
  (/\ \A u \in Users : CountId(session.votes, u) <= 1
   /\ \A c \in InFlight : c.op # "castVote") =>
     LET needed == (Len(session.players) \div 2) + 1
     IN /\ Approvals(session.votes) >= needed => session.status = "completed"
        /\ Denials(session.votes) >= needed => session.status = "disputed"

\* C20: a claimBounty that returns success was made by an account other than
\* the creator and on a bounty that had no claim of another account waiting
\* for its decision (no other account's claim has succeeded without being
\* denied since); a claim by the creator of an existing open bounty is
\* rejected and changes nothing
OneClaimPerOpenBounty ==
  [][/\ (result = NoResult /\ result'.op = "claimBounty" /\ result'.success) =>
          /\ result'.telegramId # bounty.creatorTelegramId
          /\ ~(/\ bounty.status = "claimed"
               /\ bounty.claimerTelegramId # result'.telegramId)
     /\ (/\ result = NoResult /\ result'.op = "claimBounty"
         /\ bounty.exists /\ bounty.status = "open"
         /\ result'.telegramId = bounty.creatorTelegramId) =>
          /\ result'.error = "You can't claim your own bounty."
          /\ UNCHANGED <<bounty, calls>>]_vars

\* C21: a proposeWinner that is taken up or returns success comes from the
\* creator of an active session; on success the status is voting, the vote
\* list is empty, exactly one winner field is recorded, as proposed, and
\* nothing else of the session changed; a proposeWinner that is rejected
\* leaves the session as it was, and one from another caller or in another
\* status is rejected
ProposeOnlyByCreatorWhileActive ==
  [][/\ \A d \in DOMAIN calls' :
          (d.op = "proposeWinner" /\ CopiesIn(d, calls') > CopiesIn(d, calls)) =>
            /\ session.exists /\ session.status = "active"
            /\ d.telegramId = session.creatorTelegramId
            /\ UNCHANGED session
     /\ (result = NoResult /\ result'.op = "proposeWinner" /\ result'.success) =>
          /\ result'.telegramId = session.creatorTelegramId
          /\ session.status = "active"
          /\ \E c \in InFlight :
               /\ c.op = "proposeWinner"
               /\ session' = [session EXCEPT
                    !.status = "voting", !.votes = <<>>,
                    !.proposedWinnerSide = c.side,
                    !.proposedWinnerTelegramId = IF c.side # Null THEN "" ELSE c.winnerId]
          /\ (session'.proposedWinnerSide # Null) # (session'.proposedWinnerTelegramId # "")
     /\ (result = NoResult /\ result'.op = "proposeWinner" /\ ~result'.success) =>
          /\ UNCHANGED <<session, escrow, calls>>
          /\ \/ ~session.exists
             \/ result'.telegramId # session.creatorTelegramId
             \/ session.status # "active"
     /\ (/\ result = NoResult /\ result'.op = "proposeWinner"
         /\ session.exists
         /\ (result'.telegramId # session.creatorTelegramId \/ session.status # "active")
         /\ calls' = calls) => ~result'.success]_vars

\* C21 witness: the creator's proposal of a player has just been recorded
ProposalRecorded ==
  /\ result.op = "proposeWinner" /\ result.success
  /\ result.telegramId = session.creatorTelegramId
  /\ session.status = "voting" /\ session.votes = <<>>
  /\ session.proposedWinnerSide = Null /\ session.proposedWinnerTelegramId = "u2"

\* C22: a proposeWinner that returns success named a winner that fits the
\* session: a side, 0 or 1, of a team session, or a player of the player
\* list of a session without teams
ProposalFitsSession ==
  [][(result = NoResult /\ result'.op = "proposeWinner" /\ result'.success) =>
       IF session'.teamBased
         THEN session'.proposedWinnerSide \in {0, 1}
              /\ session'.proposedWinnerTelegramId = ""
         ELSE session'.proposedWinnerSide = Null
              /\ session'.proposedWinnerTelegramId \in Ids(session'.players)]_vars

\* the players of the winning side, or the player proposed
PotWinners ==
  IF session.teamBased
    THEN {session.players[i].telegramId :
            i \in {j \in 1..Len(session.players) :
                     session.players[j].side = session.proposedWinnerSide}}
    ELSE {session.proposedWinnerTelegramId}

\* q is floor(a / b)
IsFloor(q, a, b) == q * b <= a /\ a < (q + 1) * b

\* C23: payoutWinners on a completed session whose players are different
\* accounts sends, to each of the k winners once (the player proposed, or
\* the players of the winning side), floor(pot / k) with pot the wager times
\* the number of players; each transfer takes that amount out of the escrow,
\* and on success one receipt per winner is returned
PotSplitAmongWinners ==
  [][LET pot == 10 * Pow10(getTokenDecimals) * Len(session.players)
         k == Cardinality(PotWinners)
     IN /\ \A c \in InFlight :
             (c.op = "payoutWinners" /\ c.pc = "pay") =>
               /\ k > 0 /\ IsFloor(c.amount, pot, k)
               /\ Len(c.todo) + Len(c.txHashes) = k
               /\ {c.todo[i] : i \in 1..Len(c.todo)}
                    \cup {c.txHashes[i].to : i \in 1..Len(c.txHashes)} = PotWinners
               /\ escrow' # escrow =>
                    /\ escrow' = escrow - c.amount
                    /\ \/ \E d \in DOMAIN calls' :
                            d.txHashes = Append(c.txHashes, [to |-> Head(c.todo), amount |-> c.amount])
                       \/ result'.txHashes =
                            Append(c.txHashes, [to |-> Head(c.todo), amount |-> c.amount])
        /\ (result = NoResult /\ result'.op = "payoutWinners" /\ result'.success) =>
             /\ Len(result'.txHashes) = k
             /\ {result'.txHashes[i].to : i \in 1..k} = PotWinners
             /\ \A i \in 1..k : IsFloor(result'.txHashes[i].amount, pot, k)
             /\ ~session.teamBased => result'.txHashes[1].amount = pot]_vars

\* C23 witness: three of four players are on the winning side, each was sent
\* 13.33 of the pot of 40, and the indivisible unit is left in the escrow
PotSplitThreeWays ==
  /\ session.teamBased /\ Len(session.players) = 4 /\ Cardinality(PotWinners) = 3
  /\ result.op = "payoutWinners" /\ result.success
  /\ Len(result.txHashes) = 3
  /\ \A i \in 1..3 : result.txHashes[i].amount = 1333
  /\ escrow = Treasury + 1

\* C24: a payoutWinners that fails after some of its transfers went through
\* reports the failure together with the receipts of those transfers, and
\* leaves the session completed
PartialPayoutReported ==
  [][\A c \in InFlight :
       (/\ c.op = "payoutWinners" /\ c.txHashes # <<>>
        /\ result = NoResult /\ result'.op = "payoutWinners" /\ ~result'.success) =>
         /\ result'.error # ""
         /\ result'.txHashes = c.txHashes
         /\ session'.status = "completed"]_vars

\* C25: a cancelGame is rejected exactly when the session is missing, the
\* caller is not its creator or its status is not waiting, and a rejected one
\* starts nothing and leaves the session and the escrow as they were; the
\* refund a cancelGame starts is started by the creator on a waiting session;
\* and a refundGame that returns success leaves the status cancelled
CancelGatedByCreatorAndStatus ==
  [][/\ (result = NoResult /\ result'.op = "cancelGame") =>
          /\ ~result'.success
          /\ UNCHANGED <<session, escrow, calls>>
          /\ \/ ~session.exists
             \/ result'.telegramId # session.creatorTelegramId
             \/ session.status # "waiting"
     /\ \A d \in DOMAIN calls' :
          (/\ d.op = "refundGame" /\ d.pc = "read" /\ d.telegramId # Admin
           /\ CopiesIn(d, calls') > CopiesIn(d, calls)) =>
            /\ session.exists /\ session.status = "waiting"
            /\ d.telegramId = session.creatorTelegramId
            /\ UNCHANGED <<session, escrow>>
     /\ (result = NoResult /\ result'.op = "refundGame" /\ result'.success) =>
          session'.status = "cancelled"]_vars

\* C25 witness: the creator's cancel of a session that has started was
\* rejected, and the stakes are still in the escrow
CancelRejectedOnceStarted ==
  /\ result.op = "cancelGame" /\ result.telegramId = session.creatorTelegramId
  /\ result.error = "Can only cancel games that haven't started."
  /\ session.status = "active"
  /\ escrow = Treasury + Len(session.players) * wagerWei
  /\ calls = EmptyBag

AdminResolvesOnlyDisputes ==
  [][/\ \A d \in DOMAIN calls' :
          (d.op = "adminResolveGame" /\ CopiesIn(d, calls') > CopiesIn(d, calls)) =>
            /\ session.exists /\ session.status = "disputed"
            /\ IF session.teamBased
                 THEN d.side \in {0, 1} /\ d.winnerId = ""
                 ELSE d.side = Null /\ d.winnerId \in Ids(session.players)
            /\ UNCHANGED <<session, escrow>>
     /\ \A c \in InFlight :
          c.op = "adminResolveGame" =>
            /\ session' = [session EXCEPT
                 !.status = "completed", !.proposedWinnerSide = c.side,
                 !.proposedWinnerTelegramId = c.winnerId]
            /\ escrow' = escrow
            /\ \E d \in DOMAIN calls' : d.op = "payoutWinners" /\ d.pc = "read"
     /\ (result = NoResult /\ result'.op = "adminResolveGame") =>
          /\ ~result'.success
          /\ UNCHANGED <<session, escrow, calls>>
          /\ \/ ~session.exists
             \/ session.status # "disputed"
             \/ session.teamBased /\ result'.error = "Invalid side."
             \/ ~session.teamBased /\ result'.error = "Winner is not a player in this game."]_vars

\* C27 witness: a disputed team game that the admin resolved for side 1,
\* completed and paid
AdminResolvedForSide ==
  /\ session.teamBased /\ session.status = "completed"
  /\ session.proposedWinnerSide = 1 /\ session.proposedWinnerTelegramId = ""
  /\ Denials(session.votes) >= Majority(Len(session.players))
  /\ result.op = "payoutWinners" /\ result.telegramId = Admin /\ result.success

\* C28: in a team session whose players are different accounts, neither side
\* holds more than totalSlots / 2 players, however joins and switches
\* interleave
SidesWithinCapacity ==
  (session.exists /\ session.teamBased
     /\ \A u \in Users : CountId(session.players, u) <= 1) =>
    \A side \in {0, 1} : 2 * CountSide(session.players, side) <= session.totalSlots

\* C29: a join that passes the other checks is placed: in a team session on
\* the chosen side when that side has a free slot, and on the side with fewer
\* players when the chosen side is full or no side was chosen; in a session
\* without teams on side 0
JoinPlacedOnChosenOrSmallerSide ==
  [][\A t \in users, cs \in SideInputs :
       LET full(side) == CountSide(session.players, side) >= session.totalSlots \div 2
           smaller == IF CountSide(session.players, 0) <= CountSide(session.players, 1)
                        THEN 0 ELSE 1
           placed == IF ~session.teamBased THEN 0
                     ELSE IF cs \in {0, 1} /\ ~full(cs) THEN cs
                     ELSE smaller
       IN (/\ session.exists /\ session.status = "waiting"
           /\ t \notin Ids(session.players)
           /\ Len(session.players) < session.totalSlots
           /\ getTokenBalance(t) >= parseUnits(session.wagerPerPlayer, getTokenDecimals)
           /\ JoinStart(t, cs)) =>
            \E d \in DOMAIN calls' :
              /\ CopiesIn(d, calls') > CopiesIn(d, calls)
              /\ d.op = "joinGameSession" /\ d.telegramId = t /\ d.side = placed]_vars

\* C29 as the code has it: a join that passes the other checks and chooses a
\* side that is full on the session it read is rejected with nothing changed;
\* otherwise it is placed on the chosen side, or with no side chosen on the
\* side with fewer players (side 0 when they are level), or on side 0 in a
\* session without teams; the player is stored with that side
JoinPlacedOrTeamFull ==
  [][/\ \A t \in users, cs \in SideInputs :
          LET full(side) == CountSide(session.players, side) >= session.totalSlots \div 2
              smaller == IF CountSide(session.players, 0) <= CountSide(session.players, 1)
                           THEN 0 ELSE 1
              placed == IF ~session.teamBased THEN 0
                        ELSE IF cs \in {0, 1} THEN cs
                        ELSE smaller
          IN (/\ session.exists /\ session.status = "waiting"
              /\ t \notin Ids(session.players)
              /\ Len(session.players) < session.totalSlots
              /\ getTokenBalance(t) >= parseUnits(session.wagerPerPlayer, getTokenDecimals)
              /\ JoinStart(t, cs)) =>
               IF session.teamBased /\ cs \in {0, 1} /\ full(cs)
                 THEN /\ result' = Err("joinGameSession", t, "Team is full.")
                      /\ UNCHANGED <<session, escrow, calls>>
                 ELSE \E d \in DOMAIN calls' :
                        /\ CopiesIn(d, calls') > CopiesIn(d, calls)
                        /\ d.op = "joinGameSession" /\ d.telegramId = t
                        /\ d.pc = "collect" /\ d.side = placed
     /\ \A c \in InFlight :
          (c.op = "joinGameSession" /\ c.pc = "persist" /\ JoinPersist(c)) =>
            session'.players = Append(session.players,
              [telegramId |-> c.telegramId, side |-> c.side, paid |-> TRUE])]_vars

\* a joiner who chose the full side of a team session with a free seat was
\* turned away
ChosenSideFullRejected ==
  /\ session.exists /\ session.teamBased /\ session.status = "waiting"
  /\ Len(session.players) < session.totalSlots
  /\ result = Err("joinGameSession", result.telegramId, "Team is full.")
  /\ result.telegramId \notin Ids(session.players)
  /\ \E side \in {0, 1} : CountSide(session.players, side) >= session.totalSlots \div 2

\* C30: createGameSession with a game type that is not in the catalog, or
\* with a player count that is not among the options of the type, returns an
\* error before any transfer: no call goes on, the escrow and the session
\* are unchanged; every creation that goes on, and every session, has a
\* catalog type and one of its player counts
CreateValidatedBeforeStake ==
  [][/\ \A g \in GameTypeInputs, u \in Creators, n \in SlotInputs, w \in WagerInputs :
          (/\ CreateStart(g, u, n, w)
           /\ \/ ~HasGameConfig(g)
              \/ n \notin getGameConfig(g).playerOptions) =>
            /\ result' = Err("createGameSession", u,
                 IF ~HasGameConfig(g) THEN "Unknown game type."
                 ELSE "Invalid player count for this game.")
            /\ UNCHANGED <<session, escrow, calls>>
     /\ \A d \in DOMAIN calls' :
          d.op = "createGameSession" =>
            /\ HasGameConfig(d.gameType)
            /\ d.totalSlots \in getGameConfig(d.gameType).playerOptions
     /\ session'.exists =>
          /\ HasGameConfig(session'.gameType)
          /\ session'.totalSlots \in getGameConfig(session'.gameType).playerOptions]_vars

\* a creation with a player count the type does not offer was turned away
\* with no session and nothing moved
InvalidCountRejected ==
  /\ result = Err("createGameSession", "u1", "Invalid player count for this game.")
  /\ ~session.exists /\ escrow = Treasury /\ calls = EmptyBag

\* C31: castVote goes on to record a vote only when the session it read is
\* in voting and the voter is one of its players; a vote in any other status
\* or by an account that is no player is rejected in the same step, with the
\* vote list, the status and the escrow unchanged
VoteOnlyWhileVotingByPlayer ==
  [][/\ \A d \in DOMAIN calls' :
          (d.op = "castVote" /\ d.pc = "push" /\ CopiesIn(d, calls') > CopiesIn(d, calls)) =>
            /\ session.exists /\ session.status = "voting"
            /\ d.telegramId \in Ids(session.players)
            /\ UNCHANGED <<session, escrow>>
     /\ \A t \in users, approved \in BOOLEAN :
          (/\ VoteStart(t, approved)
           /\ \/ ~session.exists
              \/ session.status # "voting"
              \/ t \notin Ids(session.players)) =>
            /\ result'.op = "castVote" /\ result'.telegramId = t /\ ~result'.success
            /\ UNCHANGED <<session, escrow, calls>>]_vars

\* an account that is no player was turned away from a round that already
\* holds a vote
StrangerVoteRejected ==
  /\ session.status = "voting" /\ Len(session.votes) = 1
  /\ result = Err("castVote", result.telegramId, "Only players can vote.")
  /\ result.telegramId \notin Ids(session.players)

\* C32: leaveGame refunds before it removes: the step at the refund either
\* moves the wager out of the escrow and goes on to the removal, or fails
\* with the session unchanged and the leaver still in the player list; a
\* player leaves the list only by a leaveGame that holds its refund transfer;
\* a leaveGame that reports a failure has not changed the session
LeaverKeptUntilRefunded ==
  [][/\ \A c \in InFlight :
          (c.op = "leaveGame" /\ CopiesIn(c, calls') < CopiesIn(c, calls)) =>
            IF c.pc = "refund"
              THEN \/ /\ escrow' = escrow - c.amount
                      /\ session' = session /\ result' = NoResult
                      /\ [c EXCEPT !.pc = "pull",
                             !.txHashes = <<[to |-> c.telegramId, amount |-> c.amount]>>]
                           \in DOMAIN calls'
                   \/ /\ escrow' = escrow
                      /\ session' = session
                      /\ result' = Err("leaveGame", c.telegramId, Thrown)
              ELSE /\ c.txHashes = <<[to |-> c.telegramId, amount |-> c.amount]>>
                   /\ escrow' = escrow
                   /\ c.telegramId \notin Ids(session'.players)
     /\ \A u \in Users :
          (u \in Ids(session.players) /\ u \notin Ids(session'.players)) =>
            \E c \in InFlight :
              /\ c.op = "leaveGame" /\ c.pc = "pull" /\ c.telegramId = u
              /\ c.txHashes = <<[to |-> u, amount |-> c.amount]>>
     /\ (result = NoResult /\ result'.op = "leaveGame" /\ ~result'.success) =>
          session' = session]_vars

\* the refund of a leaver failed: the leaver is still a player of the waiting
\* session and the escrow still holds every stake
RefundFailedLeaverStays ==
  /\ result = Err("leaveGame", result.telegramId, Thrown)
  /\ session.status = "waiting"
  /\ result.telegramId \in Ids(session.players)
  /\ result.telegramId # session.creatorTelegramId
  /\ escrow = Treasury + Len(session.players) * wagerWei

\* C33: once createGameSession has collected the stake and stored the
\* session, every notification step of the game_wager callback (the lobby
\* message, the QR code) leaves the creation reported as a success and
\* changes nothing of the session but the id of its lobby message
NotificationsNeverGate ==
  [][\A c \in InFlight :
       (c.op = "game_wager" /\ CopiesIn(c, calls') < CopiesIn(c, calls)) =>
         /\ session.exists /\ escrow = Treasury + wagerWei
         /\ result'.op = "game_wager" /\ result'.success
         /\ [session' EXCEPT !.lobbyMessageId = Null]
              = [session EXCEPT !.lobbyMessageId = Null]]_vars

\* C34: whatever payouts the votes of a round start, what has left the
\* escrow for the session never exceeds its pot, wagerPerPlayer times the
\* number of players
PaidOutWithinPot ==
  session.exists =>
    (Treasury + Len(session.players) * wagerWei) - escrow <= Len(session.players) * wagerWei

\* C35: no stake is refunded twice: under any interleaving of leaves,
\* cancels and admin refunds, the wagers sent back from the escrow never
\* exceed the wagers collected into it, so the escrow never falls below what
\* it held before the session
StakesRefundedOnce ==
  escrow >= Treasury

\* C36: a joiner is appended, and a joiner's stake collected, only while the
\* stored status of the session is waiting
JoinOnlyWhileWaiting ==
  [][\A c \in InFlight :
       c.op = "joinGameSession" =>
         /\ (c.pc = "collect" /\ JoinCollect(c) /\ escrow' # escrow) =>
              session.status = "waiting"
         /\ (c.pc = "persist" /\ JoinPersist(c)) => session.status = "waiting"]_vars

\* C37: a session whose status is active, voting, completed or disputed
\* holds exactly totalSlots players; stated for the sessions that hold no
\* more players than slots, so that a violation is a started session with a
\* player missing
StartedSessionIsFull ==
  (/\ session.exists
   /\ session.status \in {"active", "voting", "completed", "disputed"}
   /\ Len(session.players) <= session.totalSlots) =>
    Len(session.players) = session.totalSlots

\* C38: a round in which every player has voted is resolved: once no vote is
\* being handled, a session whose players have all voted, and not in equal
\* numbers for and against, is no longer in voting
EveryoneVotedResolves ==
  (/\ session.exists /\ calls = EmptyBag
   /\ \A i \in 1..Len(session.players) :
        session.players[i].telegramId \in Ids(session.votes)
   /\ Approvals(session.votes) # Denials(session.votes)) =>
    session.status # "voting"

\* C39: the reward of a bounty is transferred from its creator to the
\* claimer at most once, and a bounty that is cancelled once every call on it
\* has returned has not been paid
RewardSentAtMostOnce ==
  /\ bounty.sent <= 1
  /\ (calls = EmptyBag /\ bounty.status = "cancelled") => bounty.sent = 0
====
